---------------------------- MODULE Spec2Model ----------------------------
(***************************************************************************)
(* A model of the three Streamlit chat applications of the repository:     *)
(*   src/app.py            ("app")          DeepSeek chat + quiz + login   *)
(*   src/deepseek_app.py   ("deepseek_app") DeepSeek chat                  *)
(*   src/app_comments.py   ("app_comments") Gemini chat, multimodal input  *)
(*                                                                         *)
(* Texts are TLA+ strings.  SANY cannot read a grave accent (U+0060)       *)
(* inside a string literal, so the model writes that one character as an   *)
(* apostrophe: BT stands for U+0060 everywhere, and no modelled text holds *)
(* a real apostrophe.                                                      *)
(***************************************************************************)
EXTENDS Integers, Sequences, FiniteSets, TLC

VARIABLES
    txt,          \* the text-extraction runs: one input and what it rendered to
    req,          \* the request-building runs: one log and input, and the payload
    quizText,     \* the quiz-parsing runs: one response text and what it parsed to
    quiz,         \* the quiz generator of app.py: its widgets, run and session_state keys
    chain,        \* per query: how often the provider chain ran, its first result
    app,          \* which of the three scripts this session runs
    cfg,          \* the secrets / environment the process was started with
    auth,         \* session_state["authenticated"]: "absent", "false", "true"
    hasMessages,  \* "messages" in st.session_state
    messages,     \* st.session_state.messages, the conversation log
    topic,        \* the topic selectbox (app.py)
    media,        \* what the upload / camera / recorder widgets hold (app_comments.py)
    cache,        \* the st.cache_data memo of search_image
    pc,           \* where the script run is: "top", "history", "llm", "display", "idle"
    hi,           \* index of the next log entry the history loop displays
    event,        \* the widget event that started the run
    ui,           \* the widgets the last run left on the page
    response,     \* response_text of the turn in progress
    last,         \* what the latest display_message call did
    turn,         \* what the turn of this run did, and its LLM requests
    nUser,        \* user entries appended since the session started
    nAsst,        \* assistant replies appended since the session started
    cleared,      \* Clear Chat or Logout has been used
    appended      \* the entries appended so far, in the order of appending

vars == <<txt, req, quizText, quiz, chain, app, cfg, auth, hasMessages, messages, topic, media, cache, pc, hi,
          event, ui, response, last, turn, nUser, nAsst, cleared, appended>>

sessionVars == <<chain, app, cfg, auth, hasMessages, messages, topic, media, cache, pc, hi,
                 event, ui, response, last, turn, nUser, nAsst, cleared, appended>>

(***************************************************************************)
(* Bounds                                                                  *)
(***************************************************************************)
\* Number of chunks a text of the text-extraction runs is built from.
MaxChunks == 3
\* Number of user entries one session appends.
MaxTurns == 2
\* longest conversation log a request payload is built from
MaxLog == 11
\* the longest text, in pieces, shown by a block-extraction run
MaxPieces == 4
\* the longest response text, in fragments, parsed by a quiz-parsing run
MaxFragments == 4

(***************************************************************************)
(* Characters and string primitives (Python str / re semantics)            *)
(***************************************************************************)
BT == "'"
FENCE == BT \o BT \o BT
FENCE_PY == FENCE \o "python"
TAG_OPEN == "[IMAGE:"

Min(S) == CHOOSE m \in S : \A n \in S : m <= n

CharAt(s, i) == SubSeq(s, i, i)

\* s[from:] in Python terms (1-based from)
Suffix(s, from) == SubSeq(s, from, Len(s))

StartsAt(s, i, pat) ==
    /\ i >= 1
    /\ i + Len(pat) - 1 <= Len(s)
    /\ SubSeq(s, i, i + Len(pat) - 1) = pat

\* str.find: the least index >= from at which pat occurs, 0 when there is none
Find(s, pat, from) ==
    LET S == {i \in from..(Len(s) - Len(pat) + 1) : StartsAt(s, i, pat)}
    IN  IF S = {} THEN 0 ELSE Min(S)

\* the "in" operator on strings
Contains(s, pat) == Find(s, pat, 1) # 0

\* str.replace(old, new) for a non-empty old: every non-overlapping
\* occurrence, left to right
RECURSIVE Replace(_, _, _)
Replace(s, old, new) ==
    LET i == Find(s, old, 1)
    IN  IF i = 0 THEN s
        ELSE SubSeq(s, 1, i - 1) \o new \o Replace(Suffix(s, i + Len(old)), old, new)

\* \s of Python's re, on the characters the model uses
IsSpace(c) == c \in {" ", "\n", "\t"}

\* re.IGNORECASE folding of one character
LowerChar(c) ==
    CASE c = "I" -> "i" [] c = "M" -> "m" [] c = "A" -> "a"
      [] c = "G" -> "g" [] c = "E" -> "e" [] OTHER -> c

StartsAtCI(s, i, pat) ==
    /\ i >= 1
    /\ i + Len(pat) - 1 <= Len(s)
    /\ \A k \in 1..Len(pat) : LowerChar(CharAt(s, i + k - 1)) = LowerChar(CharAt(pat, k))

\* the first index >= p that holds no whitespace (Len(s)+1 when none): greedy \s*
SkipSpaces(s, p) ==
    Min({q \in p..(Len(s) + 1) : q = Len(s) + 1 \/ ~IsSpace(CharAt(s, q))})

NoMatch == [found |-> FALSE, start |-> 0, end |-> 0, group0 |-> "", group1 |-> ""]

(***************************************************************************)
(* re.search(r'```python(.*?)```', s, re.DOTALL) from index `from`         *)
(***************************************************************************)
\* a wrong reading of the pattern: the group runs to the last closing fence
SearchCodeGreedy(s, from) ==
    LET i == Find(s, FENCE_PY, from)
        J == IF i = 0 THEN {}
             ELSE {j \in (i + Len(FENCE_PY))..Len(s) : StartsAt(s, j, FENCE)}
        j == IF J = {} THEN 0 ELSE CHOOSE j \in J : \A k \in J : k <= j
    IN  IF i = 0 \/ j = 0 THEN NoMatch
        ELSE [found  |-> TRUE, start |-> i, end |-> j + Len(FENCE) - 1,
              group0 |-> SubSeq(s, i, j + Len(FENCE) - 1),
              group1 |-> SubSeq(s, i + Len(FENCE_PY), j - 1)]

SearchCode(s, from) ==
    LET i == Find(s, FENCE_PY, from)
        j == IF i = 0 THEN 0 ELSE Find(s, FENCE, i + Len(FENCE_PY))
    IN  IF i = 0 \/ j = 0 THEN NoMatch
        ELSE [found  |-> TRUE, start |-> i, end |-> j + Len(FENCE) - 1,
              group0 |-> SubSeq(s, i, j + Len(FENCE) - 1),
              group1 |-> SubSeq(s, i + Len(FENCE_PY), j - 1)]

\* re.finditer of the same pattern: the successive non-overlapping matches
RECURSIVE FindAllCode(_, _)
FindAllCode(s, from) ==
    LET m == SearchCode(s, from)
    IN  IF ~m.found THEN <<>> ELSE <<m>> \o FindAllCode(s, m.end + 1)

(***************************************************************************)
(* re.search(r'\[IMAGE:\s*(.*?)\]', s, re.IGNORECASE)                      *)
(* No DOTALL: the lazy group holds no newline, so a tag whose first "]"    *)
(* lies behind a newline does not match at that start.                     *)
(***************************************************************************)
\* a wrong reading of the pattern: without the \s* in front of the group
TagAtKeepSpaces(s, i) ==
    IF ~StartsAtCI(s, i, TAG_OPEN) THEN NoMatch
    ELSE LET q == i + Len(TAG_OPEN)
             r == Find(s, "]", q)
         IN  IF r = 0 \/ Contains(SubSeq(s, q, r - 1), "\n") THEN NoMatch
             ELSE [found  |-> TRUE, start |-> i, end |-> r,
                   group0 |-> SubSeq(s, i, r),
                   group1 |-> SubSeq(s, q, r - 1)]

TagAt(s, i) ==
    IF ~StartsAtCI(s, i, TAG_OPEN) THEN NoMatch
    ELSE LET q == SkipSpaces(s, i + Len(TAG_OPEN))
             r == Find(s, "]", q)
         IN  IF r = 0 \/ Contains(SubSeq(s, q, r - 1), "\n") THEN NoMatch
             ELSE [found  |-> TRUE, start |-> i, end |-> r,
                   group0 |-> SubSeq(s, i, r),
                   group1 |-> SubSeq(s, q, r - 1)]

SearchTag(s) ==
    LET S == {i \in 1..Len(s) : TagAt(s, i).found}
    IN  IF S = {} THEN NoMatch ELSE TagAt(s, Min(S))

(***************************************************************************)
(* fix_latex (app.py)                                                      *)
(***************************************************************************)
\* [a-zA-Z_] on the characters the model uses (the Greek ranges hold none)
IsLetter(c) ==
    c \in {"a", "b", "c", "d", "e", "f", "g", "h", "i", "j", "k", "l", "m",
           "n", "o", "p", "q", "r", "s", "t", "u", "v", "w", "x", "y", "z",
           "A", "B", "C", "D", "E", "F", "G", "H", "I", "J", "K", "L", "M",
           "N", "O", "P", "Q", "R", "S", "T", "U", "V", "W", "X", "Y", "Z", "_"}

\* re.sub(r'\\\[(.*?)\\\]', r'$$\1$$', text, flags=re.DOTALL)
RECURSIVE SubDisplayMath(_)
SubDisplayMath(s) ==
    LET i == Find(s, "\\[", 1)
        j == IF i = 0 THEN 0 ELSE Find(s, "\\]", i + 2)
    IN  IF i = 0 \/ j = 0 THEN s
        ELSE SubSeq(s, 1, i - 1) \o "$$" \o SubSeq(s, i + 2, j - 1) \o "$$"
             \o SubDisplayMath(Suffix(s, j + 2))

\* the end of the longest run from p of characters satisfying the test
\* (p - 1 when the run is empty)
LetterRunEnd(s, p) ==
    Min({q \in (p - 1)..Len(s) : q = Len(s) \/ ~IsLetter(CharAt(s, q + 1))})
NonBlankRunEnd(s, p) ==
    Min({q \in (p - 1)..Len(s) : q = Len(s) \/ CharAt(s, q + 1) = " "})

\* ([a-zA-Z..._]+\s*=\s*\\[^ ]+.*?)(?=\s|$|\.|,) matched at index i.
\* [^ ]+ is greedy and stops before a blank or at the end of the text, where
\* the lookahead holds at once, so the lazy .*? stays empty.
EquationAt(s, i) ==
    LET a == LetterRunEnd(s, i)
        b == SkipSpaces(s, a + 1)
        c == SkipSpaces(s, b + 1)
        d == NonBlankRunEnd(s, c + 1)
    IN  IF /\ a >= i
           /\ b <= Len(s) /\ CharAt(s, b) = "="
           /\ c <= Len(s) /\ CharAt(s, c) = "\\"
           /\ d >= c + 1
        THEN d ELSE 0

\* re.sub(<that pattern>, r'$\1$', text)
RECURSIVE SubEquations(_)
SubEquations(s) ==
    LET S == {i \in 1..Len(s) : EquationAt(s, i) # 0}
    IN  IF S = {} THEN s
        ELSE LET i == Min(S)
                 d == EquationAt(s, i)
             IN  SubSeq(s, 1, i - 1) \o "$" \o SubSeq(s, i, d) \o "$"
                 \o SubEquations(Suffix(s, d + 1))

fix_latex(text) ==
    LET t1 == SubDisplayMath(text)
    IN  IF Contains(t1, "=") /\ Contains(t1, "\\") /\ ~Contains(t1, "$")
        THEN SubEquations(t1) ELSE t1

(***************************************************************************)
(* display_message: the text it renders and the fragments it hands on      *)
(*   rendered : the text given to st.markdown                              *)
(*   afterCode: the text once the code blocks are taken out                *)
(*   hasCode  : the expander is shown and execute_plotting_code is called  *)
(*   code     : the string given to both                                   *)
(*   hasTag   : an image tag was found and taken out of the text           *)
(*   searches : search_image is called, with `query`                       *)
(***************************************************************************)
Apps == {"app", "deepseek_app", "app_comments"}
Roles == {"user", "assistant"}

\* app.py, lines 626-628: every match of finditer over `content` is taken
\* out of display_content with str.replace
RECURSIVE RemoveBlocks(_, _, _)
RemoveBlocks(display_content, matches, k) ==
    IF k > Len(matches) THEN display_content
    ELSE RemoveBlocks(Replace(display_content, matches[k].group0, ""), matches, k + 1)

display_message_app(role, content) ==
    LET matches == FindAllCode(content, 1)
        code_blocks == [k \in 1..Len(matches) |-> matches[k].group1]
        afterCode == RemoveBlocks(content, matches, 1)
        image_match == SearchTag(afterCode)
        takesTag == image_match.found /\ role = "assistant"
        image_query == IF takesTag THEN image_match.group1 ELSE ""
        display_content == IF takesTag THEN Replace(afterCode, image_match.group0, "")
                           ELSE afterCode
        hasCode == code_blocks # <<>> /\ role = "assistant"
    IN  [rendered  |-> fix_latex(display_content),
         afterCode |-> afterCode,
         hasCode   |-> hasCode,
         code      |-> IF hasCode THEN code_blocks[1] ELSE "",
         hasTag    |-> takesTag,
         query     |-> image_query,
         searches  |-> takesTag /\ image_query # ""]

\* a wrong display_message: the role of the message is not looked at
display_message_any_role(role, content) ==
    LET code_match == SearchCode(content, 1)
        afterCode == IF code_match.found THEN Replace(content, code_match.group0, "")
                     ELSE content
        image_match == SearchTag(afterCode)
    IN  [rendered  |-> IF image_match.found THEN Replace(afterCode, image_match.group0, "")
                       ELSE afterCode,
         afterCode |-> afterCode,
         hasCode   |-> code_match.found,
         code      |-> IF code_match.found THEN code_match.group1 ELSE "",
         hasTag    |-> image_match.found,
         query     |-> IF image_match.found THEN image_match.group1 ELSE "",
         searches  |-> image_match.found]

display_message_deepseek(role, content) ==
    LET code_match == SearchCode(content, 1)
        hasCode == code_match.found /\ role = "assistant"
        afterCode == IF hasCode THEN Replace(content, code_match.group0, "") ELSE content
        image_match == SearchTag(afterCode)
        takesTag == image_match.found /\ role = "assistant"
    IN  [rendered  |-> IF takesTag THEN Replace(afterCode, image_match.group0, "")
                       ELSE afterCode,
         afterCode |-> afterCode,
         hasCode   |-> hasCode,
         code      |-> IF hasCode THEN code_match.group1 ELSE "",
         hasTag    |-> takesTag,
         query     |-> IF takesTag THEN image_match.group1 ELSE "",
         searches  |-> takesTag]

display_message_comments(role, content) ==
    LET code_match == SearchCode(content, 1)
        hasCode == code_match.found /\ role = "assistant"
        text_without_code == IF hasCode THEN Replace(content, code_match.group0, "")
                             ELSE content
    IN  [rendered  |-> text_without_code,
         afterCode |-> text_without_code,
         hasCode   |-> hasCode,
         code      |-> IF hasCode THEN code_match.group1 ELSE "",
         hasTag    |-> FALSE,
         query     |-> "",
         searches  |-> FALSE]

MessageParts(a, role, content) ==
    CASE a = "app"          -> display_message_app(role, content)
      [] a = "deepseek_app" -> display_message_deepseek(role, content)
      [] a = "app_comments" -> display_message_comments(role, content)

NoParts == [rendered |-> "", afterCode |-> "", hasCode |-> FALSE, code |-> "",
            hasTag |-> FALSE, query |-> "", searches |-> FALSE]

(***************************************************************************)
(* Image search: google_search_api, duckduckgo_search_api, search_image    *)
(***************************************************************************)
\* Python's None, and truthiness of a str-or-None value
PyNone == "<None>"
Truthy(v) == v # PyNone /\ v # ""

\* a link, as opposed to None and to the two sentences of the fallback
IsUrl(v) == StartsAt(v, 1, "http")

\* What one HTTP call to a provider can come back with.
GoogleOutcomes == {"items", "no_items", "status_403", "status_429", "exception"}
DdgOutcomes == {"image", "no_results", "exception"}

\* the link of the first usable item, or None.  deepseek_app.py returns None
\* on 403/429 before reading the body; app.py reads a body without "items";
\* both return None from the except clause.
google_search_api(key, outcome) ==
    CASE outcome = "items"      -> "https://google/" \o key \o ".png"
      [] outcome = "status_403" -> PyNone
      [] outcome = "status_429" -> PyNone
      [] outcome = "no_items"   -> PyNone
      [] outcome = "exception"  -> PyNone

duckduckgo_search_api(outcome) ==
    CASE outcome = "image"      -> "https://ddg/image.jpg"
      [] outcome = "exception"  -> "Search Error: timeout"
      [] outcome = "no_results" -> "No image found."

\* The body of search_image: the provider calls it makes, in order, each with
\* what it returned, and the result.  c is the configuration: which of
\* GOOGLE_SEARCH_KEY (key1), GOOGLE_SEARCH_KEY_2 (key2), GOOGLE_CX (cx) are set.
\* a wrong chain: DuckDuckGo is asked before the second Google key
search_image_fallback_second(c, o1, o2, o3) ==
    LET uses1 == c.key1 /\ c.cx
        url1 == google_search_api("key1", o1)
        calls1 == IF uses1 THEN <<[provider |-> "google_key1", returned |-> url1]>>
                  ELSE <<>>
        ddg == duckduckgo_search_api(o3)
        calls2 == Append(calls1, [provider |-> "duckduckgo", returned |-> ddg])
        uses2 == c.key2 /\ c.cx
        url2 == google_search_api("key2", o2)
    IN  IF uses1 /\ Truthy(url1) THEN [calls |-> calls1, result |-> url1]
        ELSE IF IsUrl(ddg) \/ ~uses2 THEN [calls |-> calls2, result |-> ddg]
        ELSE [calls  |-> Append(calls2, [provider |-> "google_key2", returned |-> url2]),
              result |-> IF Truthy(url2) THEN url2 ELSE ddg]

search_image(c, o1, o2, o3) ==
    LET uses1 == c.key1 /\ c.cx
        url1 == google_search_api("key1", o1)
        calls1 == IF uses1 THEN <<[provider |-> "google_key1", returned |-> url1]>>
                  ELSE <<>>
        uses2 == c.key2 /\ c.cx
        url2 == google_search_api("key2", o2)
        calls2 == IF uses2
                  THEN Append(calls1, [provider |-> "google_key2", returned |-> url2])
                  ELSE calls1
        ddg == duckduckgo_search_api(o3)
    IN  IF uses1 /\ Truthy(url1) THEN [calls |-> calls1, result |-> url1]
        ELSE IF uses2 /\ Truthy(url2) THEN [calls |-> calls2, result |-> url2]
        ELSE [calls  |-> Append(calls2, [provider |-> "duckduckgo", returned |-> ddg]),
              result |-> ddg]

\* @st.cache_data: the memo of search_image, a function from the queries
\* already searched to their results
EmptyCache == [q \in {} |-> ""]
\* a wrong memo: the result is not stored
CacheForget(memo, q, r) == memo

CachePut(memo, q, r) ==
    [k \in DOMAIN memo \cup {q} |-> IF k = q THEN r ELSE memo[k]]

cached_search_image(memo, query, c, o1, o2, o3) ==
    IF query \in DOMAIN memo
    THEN [hit |-> TRUE, calls |-> <<>>, result |-> memo[query], cache |-> memo]
    ELSE LET r == search_image(c, o1, o2, o3)
         IN  [hit |-> FALSE, calls |-> r.calls, result |-> r.result,
              cache |-> CachePut(memo, query, r.result)]

\* The record of the searches: for each query search_image was called with,
\* how many times its body (the provider chain) ran and what the first call
\* returned.
NoChain == [q \in {} |-> [runs |-> 0, first |-> ""]]
ChainNoted(log, r) ==
    IF ~r.searched THEN log
    ELSE [q \in DOMAIN log \cup {r.parts.query} |->
            IF q # r.parts.query THEN log[q]
            ELSE [runs  |-> (IF q \in DOMAIN log THEN log[q].runs ELSE 0)
                            + (IF r.cacheHit THEN 0 ELSE 1),
                  first |-> IF q \in DOMAIN log THEN log[q].first ELSE r.result]]

\* no request-building run
NoReq == [pc |-> "off", log |-> <<>>, input |-> "", topic |-> "", level |-> "",
          payload |-> <<>>]

(***************************************************************************)
(* execute_plotting_code and st.image                                      *)
(***************************************************************************)
\* exec of the extracted code returns, raises an Exception, or raises a
\* BaseException that is not an Exception (SystemExit from exit())
ExecOutcomes == {"returns", "raises", "exits"}

\* try: ... exec ... st.pyplot  except Exception as e: st.error("Graph Error")
execute_plotting_code(outcome) ==
    [plotted    |-> outcome = "returns",
     graphError |-> outcome = "raises",
     escaped    |-> outcome = "exits"]

\* st.image(arg) hands a URL to the browser.  Any other string is taken as a
\* file path; when no such file can be opened Streamlit raises.
StImageOutcomes(arg) == IF IsUrl(arg) THEN {"shown"} ELSE {"shown", "raises"}

\* the test display_message makes before it calls st.image
ShowsImage(image_result) == Truthy(image_result) /\ ~Contains(image_result, "Error")

(***************************************************************************)
(* display_message with its effects.  oe, o1, o2, o3, oi are what the exec,  *)
(* the three providers and st.image come back with if they are called.     *)
(***************************************************************************)
\* the part after the extraction: what is executed, searched, drawn, warned.
\* deepseek_app.py searches before it renders the text and runs the code;
\* app.py runs the code first and searches afterwards.
display_message_effects(a, parts, run, found, memo, oi) ==
    [parts      |-> parts,
     execCalled |-> parts.hasCode,
     graphError |-> parts.hasCode /\ run.graphError,
     escaped    |-> parts.hasCode /\ run.escaped,
     searched   |-> parts.searches /\ ~(a = "app" /\ parts.hasCode /\ run.escaped),
     cacheHit   |-> /\ parts.searches /\ ~(a = "app" /\ parts.hasCode /\ run.escaped)
                    /\ found.hit,
     calls      |-> IF parts.searches /\ ~(a = "app" /\ parts.hasCode /\ run.escaped)
                    THEN found.calls ELSE <<>>,
     result     |-> IF parts.searches /\ ~(a = "app" /\ parts.hasCode /\ run.escaped)
                    THEN found.result ELSE PyNone,
     \* if image_result and "Error" not in image_result: st.image(...)
     \* else: st.warning("Image Search Failed")
     stImage    |-> /\ parts.searches /\ ~(parts.hasCode /\ run.escaped)
                    /\ ShowsImage(found.result),
     warning    |-> /\ parts.searches /\ ~(parts.hasCode /\ run.escaped)
                    /\ ~ShowsImage(found.result),
     raised     |-> \/ parts.hasCode /\ run.escaped
                    \/ /\ parts.searches /\ ShowsImage(found.result)
                       /\ oi = "raises" /\ oi \in StImageOutcomes(found.result),
     cache      |-> IF parts.searches /\ ~(a = "app" /\ parts.hasCode /\ run.escaped)
                    THEN found.cache ELSE memo]

display_message_calls(a, parts, c, memo, oe, o1, o2, o3, oi) ==
    display_message_effects(a, parts, execute_plotting_code(oe),
                            cached_search_image(memo, parts.query, c, o1, o2, o3),
                            memo, oi)

display_message(a, role, content, c, memo, oe, o1, o2, o3, oi) ==
    display_message_calls(a, MessageParts(a, role, content), c, memo,
                          oe, o1, o2, o3, oi)

(***************************************************************************)
(* Narration: generate_audio and the audio step of display_message         *)
(***************************************************************************)
\* str.lstrip / str.strip on the whitespace the model uses
LTrim(s) == Suffix(s, SkipSpaces(s, 1))
Trim(s) ==
    LET t == LTrim(s)
        E == {e \in 0..Len(t) : e = 0 \/ ~IsSpace(CharAt(t, e))}
    IN  SubSeq(t, 1, CHOOSE e \in E : \A f \in E : f <= e)

GRAPH_SENTENCE == "I have generated a graph."
DIAGRAM_SENTENCE == "Here is a diagram."
EQUATION_WORD == "equation"

\* re.sub(r'```.*?```', new, s, flags=re.DOTALL): each fence up to the next
\* fence behind it, new lines included
RECURSIVE SubFences(_, _)
SubFences(s, new) ==
    LET i == Find(s, FENCE, 1)
        j == IF i = 0 THEN 0 ELSE Find(s, FENCE, i + Len(FENCE))
    IN  IF i = 0 \/ j = 0 THEN s
        ELSE SubSeq(s, 1, i - 1) \o new \o SubFences(Suffix(s, j + Len(FENCE)), new)

\* where the lazy .*? of a pattern without re.DOTALL ends: the first `close`
\* at or behind p with no new line before it, 0 when there is none
CloseOnLine(s, p, close) ==
    LET j  == Find(s, close, p)
        nl == Find(s, "\n", p)
    IN  IF j # 0 /\ (nl = 0 \/ nl > j) THEN j ELSE 0

\* the leftmost match of open.*?close at or behind `from`: <<start, end>>
RECURSIVE MatchOnLine(_, _, _, _)
MatchOnLine(s, open, close, from) ==
    LET i == Find(s, open, from)
    IN  IF i = 0 THEN <<0, 0>>
        ELSE IF CloseOnLine(s, i + Len(open), close) # 0
             THEN <<i, CloseOnLine(s, i + Len(open), close) + Len(close) - 1>>
             ELSE MatchOnLine(s, open, close, i + 1)

\* re.sub(open.*?close, new, s), case-sensitive, . not matching a new line
RECURSIVE SubOnLine(_, _, _, _)
SubOnLine(s, open, close, new) ==
    LET m == MatchOnLine(s, open, close, 1)
    IN  IF m[1] = 0 THEN s
        ELSE SubSeq(s, 1, m[1] - 1) \o new
             \o SubOnLine(Suffix(s, m[2] + 1), open, close, new)

\* the three substitutions of app.py, the two of deepseek_app.py
clean_text(a, text) ==
    IF a = "app"
    THEN SubOnLine(SubOnLine(SubFences(text, GRAPH_SENTENCE), TAG_OPEN, "]", DIAGRAM_SENTENCE),
                   "$", "$", EQUATION_WORD)
    ELSE SubOnLine(SubFences(text, GRAPH_SENTENCE), TAG_OPEN, "]", DIAGRAM_SENTENCE)

\* what gTTS(...).write_to_fp can do
TtsOutcomes == {"ok", "raises"}

\* the value generate_audio returns: None, or an io.BytesIO at a position
AudioNone == [kind |-> "None", pos |-> 0]
BytesIO(pos) == [kind |-> "BytesIO", pos |-> pos]
\* the MP3 bytes of a text (one byte a character stands for the stream)
Mp3Size(text) == Len(text)

\* the try body: tts.write_to_fp leaves the position at the end of the
\* stream, audio_fp.seek(0) puts it at the start
SpeakInto(text, tts) ==
    IF tts = "raises" THEN [raised |-> TRUE, value |-> AudioNone]
    ELSE [raised |-> FALSE, value |-> [BytesIO(Mp3Size(text)) EXCEPT !.pos = 0]]

\* no except clause: the exception leaves the function
LetRaise(r) == r

\* except: return None (app.py: pass, then return None)
CatchAll(r) == IF r.raised THEN [raised |-> FALSE, value |-> AudioNone] ELSE r

\* whether the function reaches gTTS: app.py skips texts of five or fewer
\* characters
Speaks(a, text) == a # "app" \/ Len(clean_text(a, text)) > 5

generate_audio(a, text, tts) ==
    IF Speaks(a, text) THEN CatchAll(SpeakInto(clean_text(a, text), tts))
    ELSE [raised |-> FALSE, value |-> AudioNone]

\* the audio step of display_message: app.py narrates the message content,
\* deepseek_app.py the displayed text; app_comments.py has no narration
Narrates(a, role, parts, enable_voice) ==
    /\ a # "app_comments"
    /\ enable_voice /\ role = "assistant"
    /\ Len(Trim(parts.rendered)) > 0

NarrationInput(a, content, parts) == IF a = "app" THEN content ELSE parts.rendered

TtsChoices(a, role, content, parts, enable_voice) ==
    IF Narrates(a, role, parts, enable_voice) /\ Speaks(a, NarrationInput(a, content, parts))
    THEN TtsOutcomes ELSE {"ok"}

NoAudio == [called |-> FALSE, text |-> "", spoken |-> "", tts |-> "none",
            raised |-> FALSE, value |-> AudioNone, played |-> FALSE]

AudioStep(a, role, content, parts, enable_voice, tts) ==
    IF ~Narrates(a, role, parts, enable_voice) THEN NoAudio
    ELSE [called |-> TRUE,
          text   |-> NarrationInput(a, content, parts),
          spoken |-> IF Speaks(a, NarrationInput(a, content, parts))
                     THEN clean_text(a, NarrationInput(a, content, parts)) ELSE "",
          tts    |-> IF Speaks(a, NarrationInput(a, content, parts)) THEN tts ELSE "none",
          raised |-> generate_audio(a, NarrationInput(a, content, parts), tts).raised,
          value  |-> generate_audio(a, NarrationInput(a, content, parts), tts).value,
          \* if audio_bytes: st.audio(...)
          played |-> generate_audio(a, NarrationInput(a, content, parts), tts).value.kind
                     = "BytesIO"]

(***************************************************************************)
(* The session: constants of the scripts                                   *)
(***************************************************************************)
GENERAL == "General / Any"
Topics == {GENERAL, "3. Motion and Forces"}

Msg(role, content) == [role |-> role, content |-> content]

\* The greeting each script seeds the log with (app.py: shortened to its
\* first lines), and the one app.py's Clear Chat writes.
SeedGreeting(a) ==
    CASE a = "app" ->
           "Hello! I am your JPJC Physics tutor. **To get started:** 1. **Select a specific topic** from the sidebar"
      [] a = "deepseek_app" ->
           "Hello JPJC Physics students! I can **find diagrams** and **plot graphs**. What can I explain?"
      [] a = "app_comments" ->
           "Hello! I can **see** (images/PDFs), **hear** your questions (Voice), and **plot graphs**. How can I help?"
ClearGreeting ==
    "Hello! I am your JPJC Physics tutor. What concept shall we explore today?"

\* What the user types and what the LLM answers, in the session runs.
UserInputs == {"why?"}
Responses ==
    {"", "Energy is conserved.",
     FENCE_PY \o "plt.plot(x)" \o FENCE,
     FENCE_PY \o "plt.plot(x)" \o FENCE \o "[IMAGE: a]"}

\* The environments looked at: which secrets are set.  The search-engine id
\* is set exactly when a Google key is, and a password only next to the
\* other secrets.
Configs(a) ==
    {c \in [key1 : BOOLEAN, key2 : BOOLEAN, cx : BOOLEAN,
            llmKey : BOOLEAN, password : BOOLEAN] :
        /\ c.cx = (c.key1 \/ c.key2)
        /\ c.password => a = "app" /\ c.key1 /\ c.key2 /\ c.llmKey
        /\ a = "app_comments" => ~c.key1 /\ ~c.key2 /\ ~c.cx}

NoEvent == [kind |-> "none", text |-> ""]
NoTurn == [shown |-> FALSE, response |-> "", execRaised |-> FALSE,
           graphError |-> FALSE, escaped |-> FALSE,
           requests |-> 0, llmRaised |-> FALSE, errorShown |-> FALSE]
NoDisplay == [role |-> "", content |-> "", query |-> "", execCalled |-> FALSE, graphError |-> FALSE,
              escaped |-> FALSE,
              searched |-> FALSE, cacheHit |-> FALSE, calls |-> <<>>, result |-> PyNone,
              stImage |-> FALSE, warning |-> FALSE, raised |-> FALSE]

LastOf(role, content, r) ==
    [role |-> role, content |-> content, query |-> r.parts.query,
     execCalled |-> r.execCalled,
     graphError |-> r.graphError, escaped |-> r.escaped,
     searched |-> r.searched, cacheHit |-> r.cacheHit,
     calls |-> r.calls, result |-> r.result, stImage |-> r.stImage,
     warning |-> r.warning, raised |-> r.raised]

\* the widgets on the page after a run that reached the chat input, and after
\* one that died in display_message before reaching it
\* a wrong page: the chat input of app.py is enabled whatever the topic
UiChatAlwaysEnabled ==
    CASE app = "app" -> {"logout", "topic", "other", "clear_chat", "chat_input"}
      [] app = "deepseek_app" -> {"other", "clear_chat", "chat_input"}
      [] app = "app_comments" -> {"other", "media", "clear_chat", "chat_input"}

UiFull ==
    CASE app = "app" ->
           {"logout", "topic", "other", "clear_chat"}
             \cup (IF topic # GENERAL THEN {"chat_input"} ELSE {})
      [] app = "deepseek_app" -> {"other", "clear_chat", "chat_input"}
      [] app = "app_comments" -> {"other", "media", "clear_chat", "chat_input"}
UiBroken ==
    CASE app = "app" -> {"logout", "topic", "other", "clear_chat"}
      [] app = "deepseek_app" -> {"other", "clear_chat"}
      [] app = "app_comments" -> {"other", "media", "clear_chat"}

\* the session variables while only the text-extraction runs are looked at
NoSession ==
    /\ chain = NoChain
    /\ app = "app" /\ cfg = [key1 |-> FALSE, key2 |-> FALSE, cx |-> FALSE,
                             llmKey |-> FALSE, password |-> FALSE]
    /\ auth = "absent" /\ hasMessages = FALSE /\ messages = <<>>
    /\ topic = GENERAL /\ media = {} /\ cache = EmptyCache
    /\ pc = "off" /\ hi = 0 /\ event = NoEvent /\ ui = {}
    /\ response = "" /\ last = NoDisplay /\ turn = NoTurn
    /\ nUser = 0 /\ nAsst = 0 /\ cleared = FALSE /\ appended = <<>>

NoText == [app |-> "app", role |-> "user", content |-> "", pc |-> "off", out |-> NoParts,
           voice |-> FALSE, audio |-> NoAudio]

\* no quiz-parsing run, and no quiz generator on the page
NoQuizText == [pc |-> "off", text |-> "",
               result |-> [raised |-> "", none |-> TRUE, list |-> <<>>, shown |-> ""]]
NoQuizState ==
    [has_questions |-> FALSE, quiz_questions |-> <<>>, quiz_active |-> "absent",
     has_current |-> FALSE, current_question |-> 0, quiz_score |-> 0,
     answered |-> <<>>, user_answer |-> <<>>, selected_option |-> <<>>]
NoQuiz == [pc |-> "off", envKey |-> FALSE, typedKey |-> FALSE, quiz_topic |-> "General / Any",
           quiz_difficulty |-> "Intermediate", num_questions |-> 10, response |-> "", error |-> "",
           state |-> NoQuizState]

(***************************************************************************)
(* The session starts: the browser opens the page and the script runs.     *)
(***************************************************************************)
Init ==
    /\ txt = NoText /\ req = NoReq /\ chain = NoChain
    /\ quizText = NoQuizText /\ quiz = NoQuiz
    /\ app \in Apps
    /\ cfg \in Configs(app)
    /\ auth = "absent" /\ hasMessages = FALSE /\ messages = <<>>
    /\ topic = GENERAL /\ media = {} /\ cache = EmptyCache
    /\ pc = "top" /\ hi = 0 /\ event = NoEvent /\ ui = {}
    /\ response = "" /\ last = NoDisplay /\ turn = NoTurn
    /\ nUser = 0 /\ nAsst = 0 /\ cleared = FALSE /\ appended = <<>>

(***************************************************************************)
(* Widget events: each starts a script run from the top.                   *)
(***************************************************************************)
\* app_comments.py starts a turn on every run while a widget holds media m
TurnBudget(m) == (app = "app_comments" /\ m # {}) => nUser < MaxTurns

StartRun(e) ==
    /\ pc = "idle"
    /\ pc' = "top" /\ event' = e /\ turn' = NoTurn
    /\ UNCHANGED <<txt, req, quizText, quiz, chain, app, cfg, auth, hasMessages, messages, cache, hi, ui,
                   response, last, nUser, nAsst, cleared, appended>>

Submit ==
    \E text \in UserInputs :
        /\ "chat_input" \in ui
        /\ nUser < MaxTurns
        /\ StartRun([kind |-> "submit", text |-> text])
        /\ UNCHANGED <<topic, media>>

PressClearChat ==
    /\ "clear_chat" \in ui
    /\ TurnBudget(media)
    /\ StartRun([kind |-> "clear_chat", text |-> ""])
    /\ UNCHANGED <<topic, media>>

PressLogout ==
    /\ "logout" \in ui
    /\ StartRun([kind |-> "logout", text |-> ""])
    /\ UNCHANGED <<topic, media>>

SubmitLogin ==
    \E entered \in {"right", "wrong"} :
        /\ "login" \in ui
        /\ StartRun([kind |-> "login", text |-> entered])
        /\ UNCHANGED <<topic, media>>

SelectTopic ==
    \E t \in Topics :
        /\ "topic" \in ui
        /\ t # topic
        /\ topic' = t
        /\ StartRun(NoEvent)
        /\ UNCHANGED media

HoldMedia ==
    \E m \in SUBSET {"visual", "audio"} :
        /\ "media" \in ui
        /\ m # media
        /\ TurnBudget(m)
        /\ media' = m
        /\ StartRun([kind |-> "media", text |-> ""])
        /\ UNCHANGED topic

OtherWidget ==
    /\ "other" \in ui
    /\ TurnBudget(media)
    /\ StartRun(NoEvent)
    /\ UNCHANGED <<topic, media>>

(***************************************************************************)
(* The top of the script: login gate, sidebar buttons, chat initialisation *)
(***************************************************************************)
AtTop == pc = "top"

\* a wrong gate: check_login lets every run through
PastLoginAlways == TRUE

\* check_login returns True: no password configured, or already logged in
PastLogin == app # "app" \/ ~cfg.password \/ auth = "true"

\* check_login shows the form and stops the run (no or wrong password entered)
LoginStop ==
    /\ AtTop /\ ~PastLogin
    /\ ~(event.kind = "login" /\ event.text = "right")
    /\ auth' = "false"
    /\ pc' = "idle" /\ ui' = {"login"} /\ event' = NoEvent
    /\ UNCHANGED <<txt, req, quizText, quiz, chain, app, cfg, hasMessages, messages, topic, media, cache, hi,
                   response, last, turn, nUser, nAsst, cleared, appended>>

\* the entered password equals APP_PASSWORD: authenticated, st.rerun()
LoginOk ==
    /\ AtTop /\ ~PastLogin
    /\ event.kind = "login" /\ event.text = "right"
    /\ auth' = "true"
    /\ event' = NoEvent
    /\ UNCHANGED <<txt, req, quizText, quiz, chain, app, cfg, hasMessages, messages, topic, media, cache, pc, hi,
                   ui, response, last, turn, nUser, nAsst, cleared, appended>>

\* app.py sidebar: st.session_state.clear(); st.rerun()
Logout ==
    /\ AtTop /\ PastLogin
    /\ event.kind = "logout"
    /\ auth' = "absent" /\ hasMessages' = FALSE /\ messages' = <<>>
    /\ cleared' = TRUE /\ appended' = <<>>
    /\ event' = NoEvent
    /\ UNCHANGED <<txt, req, quizText, quiz, chain, app, cfg, topic, media, cache, pc, hi, ui, response, last,
                   turn, nUser, nAsst>>

\* the log Clear Chat writes: app.py a one-entry log, the others an empty list
ClearedLog ==
    IF app = "app" THEN <<Msg("assistant", ClearGreeting)>> ELSE <<>>

\* Clear Chat: st.session_state.messages = ...; st.rerun()
ClearChat ==
    /\ AtTop /\ PastLogin
    /\ event.kind = "clear_chat"
    /\ hasMessages' = TRUE /\ messages' = ClearedLog
    /\ cleared' = TRUE /\ appended' = <<>>
    /\ event' = [kind |-> "rerun", text |-> "clear_chat"]
    /\ UNCHANGED <<txt, req, quizText, quiz, chain, app, cfg, auth, topic, media, cache, pc, hi, ui, response,
                   last, turn, nUser, nAsst>>

\* a wrong initialisation: the log is seeded on every run
SeededLogAlways == <<Msg("assistant", SeedGreeting(app))>>

\* if "messages" not in st.session_state: seed the log with the greeting
SeededLog ==
    IF hasMessages THEN messages ELSE <<Msg("assistant", SeedGreeting(app))>>

\* no button pressed: the script reaches the chat section
BeginChat ==
    /\ AtTop /\ PastLogin
    /\ event.kind \notin {"logout", "clear_chat"}
    /\ hasMessages' = TRUE /\ messages' = SeededLog
    /\ pc' = "history" /\ hi' = 1
    /\ UNCHANGED <<txt, req, quizText, quiz, chain, app, cfg, auth, topic, media, cache, event, ui, response,
                   last, turn, nUser, nAsst, cleared, appended>>

(***************************************************************************)
(* for msg in st.session_state.messages: display_message(...)              *)
(***************************************************************************)
\* what each external call can come back with, when display_message makes it
ExecChoices(parts) == IF parts.hasCode THEN ExecOutcomes ELSE {"not_called"}
SearchRuns(parts) == parts.searches /\ parts.query \notin DOMAIN cache
Key1Choices(parts) ==
    IF SearchRuns(parts) /\ cfg.key1 /\ cfg.cx THEN GoogleOutcomes ELSE {"not_called"}
Key2Choices(parts) ==
    IF SearchRuns(parts) /\ cfg.key2 /\ cfg.cx THEN GoogleOutcomes ELSE {"not_called"}
DdgChoices(parts) == IF SearchRuns(parts) THEN DdgOutcomes ELSE {"not_called"}
ImageChoices(parts) == IF parts.searches THEN {"shown", "raises"} ELSE {"not_called"}

DisplayHistory ==
    /\ pc = "history" /\ hi <= Len(messages)
    /\ \E msg \in {messages[hi]} :
       \E parts \in {MessageParts(app, msg.role, msg.content)} :
       \E oe \in ExecChoices(parts), o1 \in Key1Choices(parts),
          o2 \in Key2Choices(parts), o3 \in DdgChoices(parts),
          oi \in ImageChoices(parts) :
       \E r \in {display_message(app, msg.role, msg.content, cfg, cache,
                                 oe, o1, o2, o3, oi)} :
                 /\ cache' = r.cache
                 /\ chain' = ChainNoted(chain, r)
                 /\ last' = LastOf(msg.role, msg.content, r)
                 /\ IF r.raised
                    THEN \* the exception ends the script run
                         /\ pc' = "idle" /\ hi' = 0
                         /\ ui' = UiBroken /\ event' = NoEvent
                    ELSE /\ hi' = hi + 1
                         /\ UNCHANGED <<pc, ui, event>>
    /\ UNCHANGED <<txt, req, quizText, quiz, app, cfg, auth, hasMessages, messages, topic, media,
                   response, turn, nUser, nAsst, cleared, appended>>

(***************************************************************************)
(* The chat input and the turn handler                                     *)
(***************************************************************************)
AtInput == pc = "history" /\ hi > Len(messages)

\* the condition of the turn handler's if
Submitted ==
    IF app = "app_comments" THEN event.kind = "submit" \/ media # {}
    ELSE event.kind = "submit"

\* the text appended to the log for the user
user_display_text ==
    CASE event.kind = "submit" -> event.text
      [] event.kind # "submit" /\ "audio" \in media  -> "(Sent Audio Message)"
      [] event.kind # "submit" /\ "audio" \notin media -> "(Sent Image/PDF)"

\* nothing submitted: the script ends
EndRun ==
    /\ AtInput /\ ~Submitted
    /\ pc' = "idle" /\ hi' = 0 /\ ui' = UiFull /\ event' = NoEvent
    /\ UNCHANGED <<txt, req, quizText, quiz, chain, app, cfg, auth, hasMessages, messages, topic, media, cache,
                   response, last, turn, nUser, nAsst, cleared, appended>>

\* app.py stops before it appends (no key, or the General topic);
\* the other two append the user entry first and then stop on a missing key
Refused == ~cfg.llmKey \/ (app = "app" /\ topic = GENERAL)

StopWithoutKey ==
    /\ AtInput /\ Submitted /\ Refused
    /\ IF app = "app"
       THEN UNCHANGED <<messages, nUser, appended>>
       ELSE /\ messages' = Append(messages, Msg("user", user_display_text))
            /\ nUser' = nUser + 1
            /\ appended' = Append(appended, Msg("user", user_display_text))
    /\ pc' = "idle" /\ hi' = 0 /\ ui' = UiFull /\ event' = NoEvent
    /\ UNCHANGED <<txt, req, quizText, quiz, chain, app, cfg, auth, hasMessages, topic, media, cache,
                   response, last, turn, nAsst, cleared>>

\* the user entry is appended and shown; the request is about to be sent
\* a wrong append: the entry goes to the front of the log
AppendUserFirst(log, entry) == <<entry>> \o log
AppendUser(log, entry) == Append(log, entry)

StartTurn ==
    /\ AtInput /\ Submitted /\ ~Refused
    /\ messages' = AppendUser(messages, Msg("user", user_display_text))
    /\ nUser' = nUser + 1
    /\ appended' = Append(appended, Msg("user", user_display_text))
    /\ pc' = "llm"
    /\ UNCHANGED <<txt, req, quizText, quiz, chain, app, cfg, auth, hasMessages, topic, media, cache, hi, event,
                   ui, response, last, turn, nAsst, cleared>>

\* the request returns text.  app.py appends a non-empty reply before it
\* displays it and reports an empty one as a failed call; the others display
\* first and append afterwards.
LLMReturns ==
    /\ pc = "llm"
    /\ \E r \in Responses :
        /\ response' = r
        \* app.py: elif not response_text: st.error("API call failed...")
        /\ turn' = [turn EXCEPT !.requests = @ + 1,
                                !.errorShown = (app = "app" /\ r = "")]
        /\ IF app = "app"
           THEN IF r # ""
                THEN /\ messages' = Append(messages, Msg("assistant", r))
                     /\ nAsst' = nAsst + 1
                     /\ appended' = Append(appended, Msg("assistant", r))
                     /\ pc' = "display"
                     /\ UNCHANGED <<hi, ui, event>>
                ELSE /\ pc' = "idle" /\ hi' = 0 /\ ui' = UiFull /\ event' = NoEvent
                     /\ UNCHANGED <<messages, nAsst, appended>>
           ELSE /\ pc' = "display"
                /\ UNCHANGED <<messages, nAsst, appended, hi, ui, event>>
    /\ UNCHANGED <<txt, req, quizText, quiz, chain, app, cfg, auth, hasMessages, topic, media, cache, last,
                   nUser, cleared>>

\* a wrong except clause: the error text is stored as an assistant entry
LogWithErrorEntry(log) == Append(log, Msg("assistant", "Error: request failed"))

\* what the except clause of the turn handler does to the log: nothing
LogAfterRequestError(log) == log

\* the request raises: the handler's except shows the error (app.py shows a
\* second one for the empty response_text) and the script runs to its end
LLMRaises ==
    /\ pc = "llm"
    /\ messages' = LogAfterRequestError(messages)
    /\ turn' = [turn EXCEPT !.requests = @ + 1, !.llmRaised = TRUE,
                            !.errorShown = TRUE]
    /\ pc' = "idle" /\ hi' = 0 /\ ui' = UiFull /\ event' = NoEvent
    /\ UNCHANGED <<txt, req, quizText, quiz, chain, app, cfg, auth, hasMessages, topic, media, cache,
                   response, last, nUser, nAsst, cleared, appended>>

\* display_message("assistant", response_text).  In app.py it runs outside
\* any try, after the append; in the other two inside the handler's try,
\* before the append, so an exception from it skips the append.  It is the
\* last statement of each script: the page keeps the widgets drawn before it.
DisplayResponse ==
    /\ pc = "display"
    /\ \E parts \in {MessageParts(app, "assistant", response)} :
       \E oe \in ExecChoices(parts), o1 \in Key1Choices(parts),
          o2 \in Key2Choices(parts), o3 \in DdgChoices(parts),
          oi \in ImageChoices(parts) :
       \E r \in {display_message(app, "assistant", response, cfg, cache,
                                 oe, o1, o2, o3, oi)} :
                 /\ cache' = r.cache
                 /\ chain' = ChainNoted(chain, r)
                 /\ last' = LastOf("assistant", response, r)
                 \* deepseek_app.py, app_comments.py: an Exception leaving
                 \* display_message reaches the handler's except: st.error
                 /\ turn' = [turn EXCEPT !.shown = TRUE, !.response = response,
                                         !.execRaised = oe \in {"raises", "exits"},
                                         !.graphError = r.graphError,
                                         !.escaped = r.escaped,
                                         !.errorShown = /\ app # "app"
                                                        /\ r.raised /\ ~r.escaped]
                 /\ IF app = "app"
                    THEN /\ ui' = UiFull
                         /\ UNCHANGED <<messages, nAsst, appended>>
                    ELSE /\ ui' = UiFull
                         /\ IF r.raised
                            THEN UNCHANGED <<messages, nAsst, appended>>
                            ELSE /\ messages' = Append(messages, Msg("assistant", response))
                                 /\ nAsst' = nAsst + 1
                                 /\ appended' = Append(appended, Msg("assistant", response))
    /\ pc' = "idle" /\ hi' = 0 /\ event' = NoEvent
    /\ UNCHANGED <<txt, req, quizText, quiz, app, cfg, auth, hasMessages, topic, media, response,
                   nUser, cleared>>

Next ==
    \/ Submit \/ PressClearChat \/ PressLogout \/ SubmitLogin
    \/ SelectTopic \/ HoldMedia \/ OtherWidget
    \/ LoginStop \/ LoginOk \/ Logout \/ ClearChat \/ BeginChat
    \/ DisplayHistory
    \/ EndRun \/ StopWithoutKey \/ StartTurn
    \/ LLMReturns \/ LLMRaises \/ DisplayResponse

Spec == Init /\ [][Next]_vars

(***************************************************************************)
(* Text-extraction runs: display_message as a function of (role, content), *)
(* over every text built from at most MaxChunks of the chunks below.       *)
(***************************************************************************)
Chunks == {FENCE_PY, FENCE, BT, "x", " ", "\n", TAG_OPEN, "]", " ]", "[image: a]",
           "\\[", "\\]", "=\\", "$"}

RECURSIVE TextsUpTo(_)
TextsUpTo(n) ==
    IF n = 0 THEN {""}
    ELSE LET T == TextsUpTo(n - 1) IN T \cup {t \o c : t \in T, c \in Chunks}

InitText ==
    /\ txt \in [app : Apps, role : Roles, content : TextsUpTo(MaxChunks),
                 pc : {"input"}, out : {NoParts}, voice : {FALSE}, audio : {NoAudio}]
    /\ req = NoReq
    /\ quizText = NoQuizText /\ quiz = NoQuiz
    /\ NoSession

\* one display_message call; the voice toggle and the outcome of the
\* text-to-speech service are inputs of the run
ShowText ==
    /\ txt.pc = "input"
    /\ \E parts \in {MessageParts(txt.app, txt.role, txt.content)} :
       \E enable_voice \in BOOLEAN :
       \E tts \in TtsChoices(txt.app, txt.role, txt.content, parts, enable_voice) :
          txt' = [txt EXCEPT !.pc = "shown", !.out = parts, !.voice = enable_voice,
                             !.audio = AudioStep(txt.app, txt.role, txt.content, parts,
                                                 enable_voice, tts)]
    /\ UNCHANGED <<sessionVars, req, quizText, quiz>>

NextText == ShowText

SpecText == InitText /\ [][NextText]_vars

(***************************************************************************)
(* Block-extraction runs: display_message of app.py over texts that hold   *)
(* whole python blocks, built from at most MaxPieces of the pieces below.  *)
(***************************************************************************)
Pieces == {FENCE_PY \o FENCE, FENCE_PY \o "a" \o FENCE, FENCE_PY, FENCE,
           "python", "a", "[IMAGE: a]"}

RECURSIVE PiecesUpTo(_)
PiecesUpTo(n) ==
    IF n = 0 THEN {""}
    ELSE LET T == PiecesUpTo(n - 1) IN T \cup {t \o c : t \in T, c \in Pieces}

InitBlocks ==
    /\ txt \in [app : {"app"}, role : Roles, content : PiecesUpTo(MaxPieces),
                 pc : {"input"}, out : {NoParts}, voice : {FALSE}, audio : {NoAudio}]
    /\ req = NoReq
    /\ quizText = NoQuizText /\ quiz = NoQuiz
    /\ NoSession

SpecBlocks == InitBlocks /\ [][NextText]_vars

(***************************************************************************)
(* The request payload of deepseek_app.py, built from a log of any length  *)
(***************************************************************************)
\* the system instruction blocks, shortened to their first lines
SEAB_H2_MASTER_INSTRUCTIONS == "\n**Identity:** Richard Feynman. Tutor for Singapore H2 Physics (9478).\n"
CORE_PEDAGOGY == "\n**PEDAGOGY (SOCRATIC):**\n"
UserLevels == {"Beginner", "Intermediate", "Advance"}
USER_LEVEL_INSTRUCTIONS(user_level) ==
    CASE user_level = "Beginner"     -> "\n**USER LEVEL: BEGINNER**\n"
      [] user_level = "Intermediate" -> "\n**USER LEVEL: INTERMEDIATE**\n"
      [] user_level = "Advance"      -> "\n**USER LEVEL: ADVANCE**\n"
PayloadTopics == {"General / Any", "Kinematics & Dynamics"}

current_pedagogy(user_level) ==
    CORE_PEDAGOGY \o "\n" \o USER_LEVEL_INSTRUCTIONS(user_level)

full_system_message(tp, user_level) ==
    SEAB_H2_MASTER_INSTRUCTIONS \o "\n\n" \o current_pedagogy(user_level)
        \o "\n\nCurrent Topic: " \o tp

\* the history window is the last WINDOW entries of the log
WINDOW == 10

\* a wrong window: the oldest entries instead of the latest
recent_messages_oldest(log) == SubSeq(log, 1, IF Len(log) > WINDOW THEN WINDOW ELSE Len(log))

\* st.session_state.messages[-10:]
recent_messages(log) ==
    SubSeq(log, IF Len(log) > WINDOW THEN Len(log) - WINDOW + 1 ELSE 1, Len(log))

\* the role an entry is sent with
PayloadRole(role) == IF role = "assistant" THEN "assistant" ELSE "user"

\* the list handed to call_deepseek_api
RequestMessages(log, user_input, tp, user_level) ==
    <<Msg("system", full_system_message(tp, user_level))>>
    \o [i \in 1..Len(recent_messages(log)) |->
          Msg(PayloadRole(recent_messages(log)[i].role), recent_messages(log)[i].content)]
    \o <<Msg("user", user_input)>>

\* The logs the session can hold when a turn starts: an assistant entry is
\* the seeded greeting or follows the user entry it replies to; a user entry
\* may follow any entry (its request failed) or be first (after Clear Chat).
\* Entries are told apart by their position.
LogText(i) == "entry " \o ToString(i)
LogShapes ==
    {r \in UNION {[1..n -> Roles] : n \in 0..MaxLog} :
        \A i \in 2..Len(r) : r[i] = "assistant" => r[i - 1] = "user"}
LogOf(r) == [i \in 1..Len(r) |-> Msg(r[i], LogText(i))]

InitPayload ==
    /\ txt = NoText
    /\ quizText = NoQuizText /\ quiz = NoQuiz
    /\ NoSession
    /\ \E r \in LogShapes, tp \in PayloadTopics, lv \in UserLevels, text \in UserInputs :
          req = [pc |-> "input", log |-> LogOf(r), input |-> text, topic |-> tp,
                 level |-> lv, payload |-> <<>>]

\* the user entry is appended to the log and the payload is built
BuildPayload ==
    /\ req.pc = "input"
    /\ \E log \in {Append(req.log, Msg("user", req.input))} :
          req' = [req EXCEPT !.pc = "built", !.log = log,
                             !.payload = RequestMessages(log, req.input, req.topic, req.level)]
    /\ UNCHANGED <<txt, quizText, quiz, sessionVars>>

NextPayload == BuildPayload

SpecPayload == InitPayload /\ [][NextPayload]_vars

(***************************************************************************)
(* Quiz: parse_quiz_response of app.py, as a function of the response text *)
(* (in the quiz texts the character ' is the apostrophe itself)            *)
(***************************************************************************)
\* s[i] where the index is inside the text, "" elsewhere
CharOr(s, i) == IF i >= 1 /\ i <= Len(s) THEN SubSeq(s, i, i) ELSE ""

\* the one value of a one-element set
Only(S) == CHOOSE x \in S : TRUE

\* str.rfind: the greatest index at which pat occurs, 0 when there is none
RFind(s, pat) ==
    LET S == {i \in 1..(Len(s) - Len(pat) + 1) : StartsAt(s, i, pat)}
    IN  IF S = {} THEN 0 ELSE CHOOSE m \in S : \A n \in S : n <= m

\* ''.join(parts)
RECURSIVE Join(_)
Join(parts) ==
    IF parts = <<>> THEN ""
    ELSE IF Len(parts) = 1 THEN parts[1]
    ELSE Join(SubSeq(parts, 1, Len(parts) \div 2))
         \o Join(SubSeq(parts, Len(parts) \div 2 + 1, Len(parts)))

\* str.rstrip on the whitespace the model uses
RTrim(s) ==
    LET E == {e \in 0..Len(s) : e = 0 \/ ~IsSpace(CharAt(s, e))}
    IN  SubSeq(s, 1, CHOOSE e \in E : \A f \in E : f <= e)

\* ''.join(result[-10:]).rstrip(): `result` is a list whose items are single
\* characters or the two-character item \"
prev_chars(result) ==
    RTrim(Join(SubSeq(result, IF Len(result) > 10 THEN Len(result) - 9 ELSE 1, Len(result))))

EndsWith(s, c) == s # "" /\ CharAt(s, Len(s)) = c

\* json_fragment[i+1:i+10].lstrip() for the 1-based index i
next_chars(json_fragment, i) ==
    LTrim(SubSeq(json_fragment, i + 1,
                 IF i + 9 <= Len(json_fragment) THEN i + 9 ELSE Len(json_fragment)))

\* one pass of the loop body of fix_unescaped_quotes, for character i; st
\* holds result, in_string and escape_next
FixStep(json_fragment, st, i) ==
    CASE st.escape_next ->
            [st EXCEPT !.result = Append(@, CharAt(json_fragment, i)), !.escape_next = FALSE]
      [] ~st.escape_next /\ CharAt(json_fragment, i) = "\\" ->
            [st EXCEPT !.result = Append(@, "\\"), !.escape_next = TRUE]
      [] ~st.escape_next /\ CharAt(json_fragment, i) = "\"" ->
            IF ~st.in_string /\ \E c \in {":", "{", ","} : EndsWith(prev_chars(st.result), c)
            THEN [st EXCEPT !.result = Append(@, "\""), !.in_string = TRUE]
            ELSE IF st.in_string
            THEN IF \E c \in {",", "}", "]"} : StartsAt(next_chars(json_fragment, i), 1, c)
                 THEN [st EXCEPT !.result = Append(@, "\""), !.in_string = FALSE]
                 ELSE [st EXCEPT !.result = Append(@, "\\\"")]
            ELSE [st EXCEPT !.result = Append(@, "\"")]
      [] OTHER -> [st EXCEPT !.result = Append(@, CharAt(json_fragment, i))]

\* the loop over the characters lo..up, in order (the first half, then the
\* second half from the state the first half ends in)
RECURSIVE FixRange(_, _, _, _)
FixRange(json_fragment, st, lo, up) ==
    IF lo > up THEN st
    ELSE IF lo = up THEN FixStep(json_fragment, st, lo)
    ELSE Only({ FixRange(json_fragment, half, (lo + up) \div 2 + 1, up)
                : half \in {FixRange(json_fragment, st, lo, (lo + up) \div 2)} })

fix_unescaped_quotes(json_fragment) ==
    Join(FixRange(json_fragment,
                  [result |-> <<>>, in_string |-> FALSE, escape_next |-> FALSE],
                  1, Len(json_fragment)).result)

\* re.sub(r",\s*([\]}])", r"\1", s): a comma, the whitespace behind it, and
\* then a closing bracket or brace: the comma and the whitespace go
RECURSIVE SubTrailingCommas(_)
SubTrailingCommas(s) ==
    Only({ IF i = 0 THEN s
           ELSE Only({ IF CharOr(s, j) \in {"]", "}"}
                       THEN SubSeq(s, 1, i - 1) \o CharOr(s, j)
                            \o Only({SubTrailingCommas(rest) : rest \in {Suffix(s, j + 1)}})
                       ELSE SubSeq(s, 1, i)
                            \o Only({SubTrailingCommas(rest) : rest \in {Suffix(s, i + 1)}})
                       : j \in {SkipSpaces(s, i + 1)} })
           : i \in {Find(s, ",", 1)} })

\* re.sub(r"'([^']+)':", r'"\1":', s): an apostrophe, one or more characters
\* that are no apostrophe, an apostrophe and a colon
RECURSIVE SubQuotedKeys(_)
SubQuotedKeys(s) ==
    Only({ IF i = 0 THEN s
           ELSE Only({ IF j > i + 1 /\ CharOr(s, j + 1) = ":"
                       THEN SubSeq(s, 1, i - 1) \o "\"" \o SubSeq(s, i + 1, j - 1) \o "\":"
                            \o Only({SubQuotedKeys(rest) : rest \in {Suffix(s, j + 2)}})
                       ELSE SubSeq(s, 1, i)
                            \o Only({SubQuotedKeys(rest) : rest \in {Suffix(s, i + 1)}})
                       : j \in {Find(s, "'", i + 1)} })
           : i \in {Find(s, "'", 1)} })

(***************************************************************************)
(* json.loads on the repaired text.  Values: int, str, bool, None, list    *)
(* (items: the elements), dict (items: the key/value pairs in the order    *)
(* of the text).  The texts hold no fraction, exponent, NaN or Infinity    *)
(* and no \b or \uXXXX escape.                                             *)
(***************************************************************************)
JNone == [t |-> "None", n |-> 0, s |-> "", items |-> <<>>]
JInt(n) == [t |-> "int", n |-> n, s |-> "", items |-> <<>>]
JStr(s) == [t |-> "str", n |-> 0, s |-> s, items |-> <<>>]
JBool(b) == [t |-> "bool", n |-> IF b THEN 1 ELSE 0, s |-> "", items |-> <<>>]
JList(items) == [t |-> "list", n |-> 0, s |-> "", items |-> items]
JDict(items) == [t |-> "dict", n |-> 0, s |-> "", items |-> items]

\* the result of a scan: a value and the index behind it, or JSONDecodeError
ScanError == [ok |-> FALSE, val |-> JNone, pos |-> 0]
Scanned(val, pos) == [ok |-> TRUE, val |-> val, pos |-> pos]

IsJsonSpace(c) == c \in {" ", "\t", "\n", "\r"}
SkipJsonSpace(s, p) ==
    Min({q \in p..(Len(s) + 1) : q = Len(s) + 1 \/ ~IsJsonSpace(CharAt(s, q))})

IsDigit(c) == c \in {"0", "1", "2", "3", "4", "5", "6", "7", "8", "9"}
DigitValue(c) ==
    CASE c = "0" -> 0 [] c = "1" -> 1 [] c = "2" -> 2 [] c = "3" -> 3 [] c = "4" -> 4
      [] c = "5" -> 5 [] c = "6" -> 6 [] c = "7" -> 7 [] c = "8" -> 8 [] c = "9" -> 9

\* the value of a run of digits
RECURSIVE DigitsValue(_)
DigitsValue(d) ==
    IF d = "" THEN 0
    ELSE 10 * DigitsValue(SubSeq(d, 1, Len(d) - 1)) + DigitValue(CharAt(d, Len(d)))

\* the first index >= p that holds no digit
DigitsEnd(s, p) == Min({q \in p..(Len(s) + 1) : q = Len(s) + 1 \/ ~IsDigit(CharAt(s, q))})

\* NUMBER_RE: -?(0|[1-9]\d*)
ScanNumber(s, p) ==
    LET d == IF CharOr(s, p) = "-" THEN p + 1 ELSE p
        e == IF CharOr(s, d) = "0" THEN d + 1 ELSE DigitsEnd(s, d)
    IN  IF ~IsDigit(CharOr(s, d)) THEN ScanError
        ELSE Scanned(JInt((IF d > p THEN -1 ELSE 1) * DigitsValue(SubSeq(s, d, e - 1))), e)

\* the character a backslash escape stands for ("" : not an escape)
Unescaped(c) ==
    CASE c = "\"" -> "\"" [] c = "\\" -> "\\" [] c = "/" -> "/"
      [] c = "n" -> "\n" [] c = "t" -> "\t" [] c = "r" -> "\r" [] c = "f" -> "\f"
      [] OTHER -> ""

\* py_scanstring from index p, behind the opening quote or an escape: the
\* characters up to the next quote, backslash or control character
RECURSIVE ScanString(_, _, _)
ScanString(s, p, acc) ==
    Only({ CASE q > Len(s) -> ScanError
             [] q <= Len(s) /\ CharOr(s, q) = "\"" ->
                   Scanned(JStr(acc \o SubSeq(s, p, q - 1)), q + 1)
             [] q <= Len(s) /\ CharOr(s, q) = "\\" /\ Unescaped(CharOr(s, q + 1)) # "" ->
                   Only({ ScanString(s, q + 2, a)
                          : a \in {acc \o SubSeq(s, p, q - 1) \o Unescaped(CharOr(s, q + 1))} })
             [] OTHER -> ScanError
           : q \in {Min({k \in p..(Len(s) + 1) :
                           k = Len(s) + 1
                           \/ CharAt(s, k) \in {"\"", "\\", "\n", "\t", "\r", "\f"}})} })

RECURSIVE scan_once(_, _)
RECURSIVE ArrayItems(_, _, _)
RECURSIVE ObjectItems(_, _, _)

\* behind an array element r: "]" ends the array, "," leads to the next one
ArrayNext(s, r, acc) ==
    IF ~r.ok THEN ScanError
    ELSE Only({ CASE CharOr(s, q) = "]" -> Scanned(JList(Append(acc, r.val)), q + 1)
                  [] CharOr(s, q) = "," -> ArrayItems(s, SkipJsonSpace(s, q + 1),
                                                      Append(acc, r.val))
                  [] OTHER -> ScanError
                : q \in {SkipJsonSpace(s, r.pos)} })

ArrayItems(s, p, acc) == Only({ ArrayNext(s, r, acc) : r \in {scan_once(s, p)} })

\* JSONArray from the index behind "["
JSONArray(s, p) ==
    IF CharOr(s, SkipJsonSpace(s, p)) = "]"
    THEN Scanned(JList(<<>>), SkipJsonSpace(s, p) + 1)
    ELSE ArrayItems(s, SkipJsonSpace(s, p), <<>>)

\* behind a value r of key k: "}" ends the object, "," leads to the next key
ObjectNext(s, k, r, acc) ==
    IF ~r.ok THEN ScanError
    ELSE Only({ CASE CharOr(s, q) = "}" ->
                       Scanned(JDict(Append(acc, [k |-> k.val.s, v |-> r.val])), q + 1)
                  [] CharOr(s, q) = "," /\ CharOr(s, SkipJsonSpace(s, q + 1)) = "\"" ->
                       ObjectItems(s, SkipJsonSpace(s, q + 1),
                                   Append(acc, [k |-> k.val.s, v |-> r.val]))
                  [] OTHER -> ScanError
                : q \in {SkipJsonSpace(s, r.pos)} })

\* behind a key k: a colon and the value
ObjectValue(s, k, acc) ==
    IF ~k.ok THEN ScanError
    ELSE IF CharOr(s, SkipJsonSpace(s, k.pos)) # ":" THEN ScanError
    ELSE Only({ ObjectNext(s, k, r, acc)
                : r \in {scan_once(s, SkipJsonSpace(s, SkipJsonSpace(s, k.pos) + 1))} })

\* a key, at the index of its opening quote
ObjectItems(s, p, acc) ==
    Only({ ObjectValue(s, k, acc) : k \in {ScanString(s, p + 1, "")} })

\* JSONObject from the index behind "{"
JSONObject(s, p) ==
    IF CharOr(s, SkipJsonSpace(s, p)) = "}"
    THEN Scanned(JDict(<<>>), SkipJsonSpace(s, p) + 1)
    ELSE IF CharOr(s, SkipJsonSpace(s, p)) = "\""
    THEN ObjectItems(s, SkipJsonSpace(s, p), <<>>)
    ELSE ScanError

scan_once(s, p) ==
    CASE CharOr(s, p) = "\"" -> ScanString(s, p + 1, "")
      [] CharOr(s, p) = "{" -> JSONObject(s, p + 1)
      [] CharOr(s, p) = "[" -> JSONArray(s, p + 1)
      [] StartsAt(s, p, "null") -> Scanned(JNone, p + 4)
      [] StartsAt(s, p, "true") -> Scanned(JBool(TRUE), p + 4)
      [] StartsAt(s, p, "false") -> Scanned(JBool(FALSE), p + 5)
      [] CharOr(s, p) = "-" \/ IsDigit(CharOr(s, p)) -> ScanNumber(s, p)
      [] OTHER -> ScanError

\* json.loads: one value, whitespace around it, and nothing else
json_loads(s) ==
    Only({ IF r.ok /\ SkipJsonSpace(s, r.pos) = Len(s) + 1 THEN r ELSE ScanError
           : r \in {scan_once(s, SkipJsonSpace(s, 1))} })

(***************************************************************************)
(* The validation loop: dict.get, int(), str(), str.strip, str.lower       *)
(***************************************************************************)
HasKey(items, key) == \E i \in 1..Len(items) : items[i].k = key

\* q.get(key, default): the last pair of the text with that key wins
DictGet(items, key, default) ==
    IF ~HasKey(items, key) THEN default
    ELSE items[CHOOSE i \in 1..Len(items) :
                   items[i].k = key /\ \A j \in (i + 1)..Len(items) : items[j].k # key].v

AllDigits(s) == s # "" /\ \A i \in 1..Len(s) : IsDigit(CharAt(s, i))

\* int(v): the number, or the exception it raises
py_int(v) ==
    CASE v.t \in {"int", "bool"} -> [exc |-> "", n |-> v.n]
      [] v.t = "str" ->
            LET t == Trim(v.s)
                d == IF CharOr(t, 1) \in {"+", "-"} THEN Suffix(t, 2) ELSE t
            IN  IF AllDigits(d)
                THEN [exc |-> "", n |-> (IF CharOr(t, 1) = "-" THEN -1 ELSE 1) * DigitsValue(d)]
                ELSE [exc |-> "ValueError", n |-> 0]
      [] OTHER -> [exc |-> "TypeError", n |-> 0]

\* repr of a str
ReprChar(c, quote) ==
    CASE c = "\\" -> "\\\\"
      [] c = quote -> "\\" \o quote
      [] c = "\n" -> "\\n"
      [] c = "\t" -> "\\t"
      [] c = "\r" -> "\\r"
      [] c = "\f" -> "\\x0c"
      [] OTHER -> c

RECURSIVE ReprBody(_, _)
ReprBody(s, quote) ==
    IF Len(s) <= 1 THEN ReprChar(s, quote)
    ELSE ReprBody(SubSeq(s, 1, Len(s) \div 2), quote)
         \o ReprBody(Suffix(s, Len(s) \div 2 + 1), quote)

ReprStr(s) ==
    LET quote == IF Contains(s, "'") /\ ~Contains(s, "\"") THEN "\"" ELSE "'"
    IN  quote \o ReprBody(s, quote) \o quote

\* the keys of a dict in the order of their first appearance
RECURSIVE DictKeys(_, _)
DictKeys(items, seen) ==
    IF items = <<>> THEN <<>>
    ELSE IF Head(items).k \in seen THEN DictKeys(Tail(items), seen)
    ELSE <<Head(items).k>> \o DictKeys(Tail(items), seen \cup {Head(items).k})

RECURSIVE JoinWith(_, _)
JoinWith(parts, sep) ==
    IF parts = <<>> THEN ""
    ELSE IF Len(parts) = 1 THEN parts[1]
    ELSE parts[1] \o sep \o JoinWith(Tail(parts), sep)

\* repr(v), which str() of a list or dict is built from
RECURSIVE py_repr(_)
py_repr(v) ==
    CASE v.t = "str" -> ReprStr(v.s)
      [] v.t = "int" -> ToString(v.n)
      [] v.t = "bool" -> IF v.n = 1 THEN "True" ELSE "False"
      [] v.t = "None" -> "None"
      [] v.t = "list" ->
            "[" \o JoinWith([i \in 1..Len(v.items) |-> py_repr(v.items[i])], ", ") \o "]"
      [] v.t = "dict" ->
            LET keys == DictKeys(v.items, {})
            IN  "{" \o JoinWith([i \in 1..Len(keys) |->
                                   ReprStr(keys[i]) \o ": "
                                   \o py_repr(DictGet(v.items, keys[i], JNone))], ", ") \o "}"

py_str(v) == IF v.t = "str" THEN v.s ELSE py_repr(v)

\* str.lower on the letters the quiz texts hold
LowerLetter(c) ==
    CASE c = "M" -> "m" [] c = "C" -> "c" [] c = "Q" -> "q" [] c = "T" -> "t"
      [] c = "F" -> "f" [] c = "N" -> "n" [] OTHER -> c

RECURSIVE str_lower(_)
str_lower(s) ==
    IF Len(s) <= 1 THEN LowerLetter(s)
    ELSE str_lower(SubSeq(s, 1, Len(s) \div 2)) \o str_lower(Suffix(s, Len(s) \div 2 + 1))

\* the dict built for item q, the i-th of the array (from 0); int() of the
\* question number is what can raise
validated_q(q, i) ==
    [question_number |-> py_int(DictGet(q.items, "question_number", JInt(i + 1))).n,
     question_type   |-> str_lower(py_str(DictGet(q.items, "question_type", JStr("mcq")))),
     question        |-> Trim(py_str(DictGet(q.items, "question",
                                             JStr("Question " \o ToString(i + 1))))),
     options         |-> LET o == DictGet(q.items, "options", JNone)
                         IN  IF o.t = "list"
                             THEN [k \in 1..Len(o.items) |-> Trim(py_str(o.items[k]))]
                             ELSE <<>>,
     correct_answer  |-> Trim(py_str(DictGet(q.items, "correct_answer", JStr("")))),
     explanation     |-> Trim(py_str(DictGet(q.items, "explanation", JStr(""))))]

\* what the function hands back: None or a list, and the message it showed
ReturnsNone(shown) == [raised |-> "", none |-> TRUE, list |-> <<>>, shown |-> shown]
ReturnsList(list) == [raised |-> "", none |-> FALSE, list |-> list, shown |-> "success"]
Raises(exc) == [raised |-> exc, none |-> FALSE, list |-> <<>>, shown |-> ""]

\* lines 318-331 from item i + 1 of `questions` on
RECURSIVE Validate(_, _, _)
Validate(questions, i, validated) ==
    IF i >= Len(questions) THEN ReturnsList(validated)
    ELSE IF questions[i + 1].t # "dict" THEN Validate(questions, i + 1, validated)
    ELSE IF py_int(DictGet(questions[i + 1].items, "question_number", JInt(i + 1))).exc # ""
         THEN Raises(py_int(DictGet(questions[i + 1].items, "question_number",
                                    JInt(i + 1))).exc)
    ELSE Validate(questions, i + 1, Append(validated, validated_q(questions[i + 1], i)))

\* lines 306-308
fixed_json(json_str) ==
    Only({ Only({ SubQuotedKeys(no_commas) : no_commas \in {SubTrailingCommas(quoted)} })
           : quoted \in {fix_unescaped_quotes(json_str)} })

\* the body of the try statement, lines 256-334
TryBody(response_text) ==
    IF Find(response_text, "[", 1) = 0 \/ RFind(response_text, "]") = 0
    THEN ReturnsNone("no_boundaries")
    ELSE Only({ Only({ Only({ IF ~r.ok THEN Raises("JSONDecodeError")
                              ELSE Validate(IF r.val.t = "list" THEN r.val.items
                                            ELSE <<r.val>>, 0, <<>>)
                              : r \in {json_loads(fixed)} })
                       : fixed \in {fixed_json(json_str)} })
                : json_str \in {SubSeq(response_text, Find(response_text, "[", 1),
                                       RFind(response_text, "]"))} })

\* a wrong handler list: only the JSON error is caught
ExceptDecodeErrorOnly(r) ==
    IF r.raised = "JSONDecodeError" THEN ReturnsNone("json_error") ELSE r

\* lines 336-358: except json.JSONDecodeError, except Exception
ExceptClauses(r) ==
    CASE r.raised = "" -> r
      [] r.raised = "JSONDecodeError" -> ReturnsNone("json_error")
      [] OTHER -> ReturnsNone("unexpected_error")

parse_quiz_response(response_text) == ExceptClauses(TryBody(response_text))


(***************************************************************************)
(* Quiz-parsing runs: parse_quiz_response over every text built from at    *)
(* most MaxFragments of the fragments below.                               *)
(***************************************************************************)
Fragments == {"[{", "}]", "[", "]", ",", "{}", "1", "1,", "\"x\"",
              "'question_number':", "'options':", "[\" x\",1]",
              "'question_type':\"MCQ\"", "\"question\":", "\\"}

RECURSIVE FragmentsUpTo(_)
FragmentsUpTo(n) ==
    IF n = 0 THEN {""}
    ELSE LET T == FragmentsUpTo(n - 1) IN T \cup {t \o c : t \in T, c \in Fragments}

InitParse ==
    /\ quizText \in [pc : {"input"}, text : FragmentsUpTo(MaxFragments),
                      result : {NoQuizText.result}]
    /\ txt = NoText /\ req = NoReq /\ quiz = NoQuiz
    /\ NoSession

\* one parse_quiz_response call
ParseText ==
    /\ quizText.pc = "input"
    /\ \E r \in {parse_quiz_response(quizText.text)} :
          quizText' = [quizText EXCEPT !.pc = "parsed", !.result = r]
    /\ UNCHANGED <<txt, req, quiz, sessionVars>>

NextParse == ParseText

SpecParse == InitParse /\ [][NextParse]_vars

(***************************************************************************)
(* The quiz generator in the sidebar of app.py, for a user past            *)
(* check_login.  quiz.state holds the quiz keys of st.session_state.       *)
(***************************************************************************)
QUIZ_LEVELS == {"Basic", "Intermediate", "Advanced"}

\* positions of the "Number of questions" slider: its ends and its default
SliderPositions == {5, 10, 30}

\* what the quiz request can come back with
QuizResponses == {"[{}]", "[{},{}]", "[1,{}]", "[]", "no quiz", "[{\"question\":\"x\"}]"}

\* deepseek_key: the environment variable, else the text input
deepseek_key == quiz.envKey \/ quiz.typedKey

is_topic_general == quiz.quiz_topic = GENERAL

\* the widgets left on the page by a run
QuizIdle == quiz.pc = "idle"

\* a widget event starts a run; the messages of the run before are gone
QuizRerun(q) == [q EXCEPT !.pc = "idle", !.error = "", !.response = ""]

InitQuiz ==
    /\ \E k \in BOOLEAN :
          quiz = [NoQuiz EXCEPT !.pc = "idle", !.envKey = k]
    /\ txt = NoText /\ req = NoReq /\ quizText = NoQuizText
    /\ NoSession

\* the key is typed into (or removed from) the text input shown without the
\* environment variable
TypeKey ==
    /\ QuizIdle /\ ~quiz.envKey
    /\ quiz' = [QuizRerun(quiz) EXCEPT !.typedKey = ~quiz.typedKey]
    /\ UNCHANGED <<txt, req, quizText, sessionVars>>

SelectQuizTopic ==
    /\ QuizIdle
    /\ \E t \in Topics \ {quiz.quiz_topic} :
          quiz' = [QuizRerun(quiz) EXCEPT !.quiz_topic = t]
    /\ UNCHANGED <<txt, req, quizText, sessionVars>>

SelectQuizDifficulty ==
    /\ QuizIdle
    /\ \E d \in QUIZ_LEVELS \ {quiz.quiz_difficulty} :
          quiz' = [QuizRerun(quiz) EXCEPT !.quiz_difficulty = d]
    /\ UNCHANGED <<txt, req, quizText, sessionVars>>

SlideNumQuestions ==
    /\ QuizIdle
    /\ \E n \in SliderPositions \ {quiz.num_questions} :
          quiz' = [QuizRerun(quiz) EXCEPT !.num_questions = n]
    /\ UNCHANGED <<txt, req, quizText, sessionVars>>

\* "Generate Quiz" is enabled with a key and a specific topic; the run
\* reaches call_deepseek
PressGenerateQuiz ==
    /\ QuizIdle
    /\ ~(is_topic_general \/ ~deepseek_key)
    /\ quiz' = [QuizRerun(quiz) EXCEPT !.pc = "request"]
    /\ UNCHANGED <<txt, req, quizText, sessionVars>>

\* call_deepseek raises: except Exception, st.error
QuizRequestRaises ==
    /\ quiz.pc = "request"
    /\ quiz' = [quiz EXCEPT !.pc = "idle", !.error = "Error generating quiz: request failed"]
    /\ UNCHANGED <<txt, req, quizText, sessionVars>>

QuizRequestReturns ==
    /\ quiz.pc = "request"
    /\ \E r \in QuizResponses :
          quiz' = [quiz EXCEPT !.pc = "response", !.response = r]
    /\ UNCHANGED <<txt, req, quizText, sessionVars>>

\* the names bound in the script's namespace when the run is at line 804:
\* every run starts from an empty namespace, and quiz_questions is assigned
\* at lines 811 and 859 only, both behind line 804
NamesBoundAtDebugBlock == {"response", "quiz_prompt", "quiz_messages", "quiz_system_instruction"}

\* lines 815-825
QuizStateFor(quiz_questions) ==
    [has_questions |-> TRUE, quiz_questions |-> quiz_questions, quiz_active |-> "True",
     has_current |-> TRUE, current_question |-> 0, quiz_score |-> 0,
     answered        |-> [i \in 1..Len(quiz_questions) |-> FALSE],
     user_answer     |-> [i \in 1..Len(quiz_questions) |-> "None"],
     selected_option |-> [i \in 1..Len(quiz_questions) |-> "None"]]

\* lines 802-833 for a response: the debug block reads quiz_questions, then
\* the response is parsed and the quiz keys are set
AfterQuizResponse(q, names) ==
    IF "quiz_questions" \notin names
    THEN [q EXCEPT !.pc = "idle",
                   !.error = "Error generating quiz: name 'quiz_questions' is not defined"]
    ELSE IF ~parse_quiz_response(q.response).none
            /\ Len(parse_quiz_response(q.response).list) > 0
         THEN [q EXCEPT !.pc = "idle", !.error = "",
                        !.state = QuizStateFor(parse_quiz_response(q.response).list)]
         ELSE [q EXCEPT !.pc = "idle",
                        !.error = "Failed to generate quiz questions. Please try again."]

ShowDebugAndParse ==
    /\ quiz.pc = "response"
    /\ \E q \in {AfterQuizResponse(quiz, NamesBoundAtDebugBlock)} : quiz' = q
    /\ UNCHANGED <<txt, req, quizText, sessionVars>>

\* "Clear Quiz": the quiz keys that exist are deleted, st.rerun()
PressClearQuiz ==
    /\ QuizIdle
    /\ quiz' = [QuizRerun(quiz) EXCEPT
                   !.state = [@ EXCEPT !.has_questions = FALSE, !.quiz_questions = <<>>,
                                       !.quiz_active = "absent",
                                       !.has_current = FALSE, !.current_question = 0]]
    /\ UNCHANGED <<txt, req, quizText, sessionVars>>

NextQuiz ==
    \/ TypeKey
    \/ SelectQuizTopic
    \/ SelectQuizDifficulty
    \/ SlideNumQuestions
    \/ PressGenerateQuiz
    \/ QuizRequestRaises
    \/ QuizRequestReturns
    \/ ShowDebugAndParse
    \/ PressClearQuiz

SpecQuiz == InitQuiz /\ [][NextQuiz]_vars

(***************************************************************************)
(* Claims about the text extraction (checked under SpecText)               *)
(***************************************************************************)
Shown == txt.pc = "shown"

\* <<i, j>>: an opening fence tagged python at i, a closing fence at j behind it
FencePairs(s) ==
    {p \in {i \in 1..Len(s) : StartsAt(s, i, FENCE_PY)}
              \X {j \in 1..Len(s) : StartsAt(s, j, FENCE)} :
        p[2] >= p[1] + Len(FENCE_PY)}

\* the first block: the first opening fence that is closed, up to its first
\* closing fence
FirstBlock(s) ==
    CHOOSE p \in FencePairs(s) :
        \A o \in FencePairs(s) : p[1] < o[1] \/ (p[1] = o[1] /\ p[2] <= o[2])

\* the text holds one block and no further block behind it
ExactlyOneBlock(s) ==
    /\ FencePairs(s) # {}
    /\ \A o \in FencePairs(s) : o[1] < FirstBlock(s)[2] + Len(FENCE)

\* what display_message does to the text once the code is out of it
StripTag(t) ==
    LET m == SearchTag(t) IN IF m.found THEN Replace(t, m.group0, "") ELSE t
RestOfRendering(a, t) ==
    CASE a = "app"          -> fix_latex(StripTag(t))
      [] a = "deepseek_app" -> StripTag(t)
      [] a = "app_comments" -> t

\* C1: for an assistant text with exactly one python block, the rendered text
\* is the text with the whole block (both fences) cut out, and the code handed
\* to execute_plotting_code and the expander is exactly the characters between
\* the opening fence and the closing fence.
C1_OneBlockExtracted ==
    (Shown /\ txt.role = "assistant" /\ ExactlyOneBlock(txt.content)) =>
        LET s == txt.content
            i == FirstBlock(s)[1]
            j == FirstBlock(s)[2]
            cut == SubSeq(s, 1, i - 1) \o Suffix(s, j + Len(FENCE))
        IN  /\ txt.out.hasCode
            /\ txt.out.code = SubSeq(s, i + Len(FENCE_PY), j - 1)
            /\ txt.out.afterCode = cut
            /\ txt.out.rendered = RestOfRendering(txt.app, cut)

C1_Witness ==
    /\ Shown /\ txt.role = "assistant" /\ txt.app = "app"
    /\ ExactlyOneBlock(txt.content)
    /\ txt.content = FENCE_PY \o "x" \o FENCE
    /\ txt.out.code = "x"
    /\ txt.out.rendered = ""

\* <<i, r>>: an image tag opening at i (any letter case) whose first closing
\* bracket is at r, with no newline in the query
TagSpans(s) ==
    {p \in {i \in 1..Len(s) : StartsAtCI(s, i, TAG_OPEN)}
              \X {r \in 1..Len(s) : CharAt(s, r) = "]"} :
        /\ p[2] >= p[1] + Len(TAG_OPEN)
        /\ ~Contains(SubSeq(s, p[1] + Len(TAG_OPEN), p[2] - 1), "]")
        /\ ~Contains(LTrim(SubSeq(s, p[1] + Len(TAG_OPEN), p[2] - 1)), "\n")}
FirstTag(s) == CHOOSE p \in TagSpans(s) : \A o \in TagSpans(s) : p[1] <= o[1]
\* the text between "IMAGE:" and the closing bracket of the first tag
Between(s) == SubSeq(s, FirstTag(s)[1] + Len(TAG_OPEN), FirstTag(s)[2] - 1)

SearchesTag == Shown /\ txt.app \in {"app", "deepseek_app"} /\ txt.out.searches

\* C2 as stated: the query passed to search_image is the text between "IMAGE:"
\* and the closing bracket with whitespace trimmed on both sides.
C2_TrimmedBothSides ==
    SearchesTag =>
        /\ TagSpans(txt.out.afterCode) # {}
        /\ txt.out.query = Trim(Between(txt.out.afterCode))

\* C2 amended: the query passed to search_image is the text between "IMAGE:"
\* and the closing bracket with the leading whitespace removed only; trailing
\* whitespace before the bracket is kept.
C2_TrimmedOnTheLeft ==
    SearchesTag =>
        /\ TagSpans(txt.out.afterCode) # {}
        /\ txt.out.query = LTrim(Between(txt.out.afterCode))

C2_Witness ==
    /\ SearchesTag
    /\ txt.content = TAG_OPEN \o "x" \o " ]"
    /\ txt.out.query = "x "

\* C3: for an assistant text holding one or more image tags (any letter case,
\* any queries) the rendered text holds no image tag.
C3_NoTagRendered ==
    (/\ Shown /\ txt.app \in {"app", "deepseek_app"} /\ txt.role = "assistant"
     /\ TagSpans(txt.content) # {})
        => TagSpans(txt.out.rendered) = {}

(***************************************************************************)
(* Claims about the image search and the plot executor                     *)
(***************************************************************************)
ProviderRank(p) ==
    CASE p = "google_key1" -> 1
      [] p = "google_key2" -> 2
      [] p = "duckduckgo"  -> 3

\* the last display_message call ran the provider chain (no memo hit)
ChainRan == last.searched /\ ~last.cacheHit
Called(p) == \E i \in 1..Len(last.calls) : last.calls[i].provider = p
Sentinels == {"Search Error: timeout", "No image found."}

\* C4: search_image tries the providers in the order Google key 1, Google
\* key 2, DuckDuckGo.  Every call but the last yielded no URL; a configured
\* earlier provider has been called whenever a later one is; a URL ends the
\* chain and is the result; without a URL the result is what DuckDuckGo gave.
C4_ProvidersInOrder ==
    ChainRan =>
        LET calls == last.calls
            n == Len(calls)
        IN  /\ n >= 1
            /\ \A i, j \in 1..n :
                 i < j => ProviderRank(calls[i].provider) < ProviderRank(calls[j].provider)
            /\ \A i \in 1..(n - 1) : ~IsUrl(calls[i].returned)
            /\ last.result = calls[n].returned
            /\ ~IsUrl(calls[n].returned) => calls[n].provider = "duckduckgo"
            /\ (Called("google_key2") \/ Called("duckduckgo")) /\ cfg.key1 /\ cfg.cx
                 => Called("google_key1")
            /\ Called("duckduckgo") /\ cfg.key2 /\ cfg.cx => Called("google_key2")

C4_Witness ==
    /\ ChainRan
    /\ Len(last.calls) = 3
    /\ last.calls[1] = [provider |-> "google_key1", returned |-> PyNone]
    /\ last.calls[2].provider = "google_key2"
    /\ IsUrl(last.calls[2].returned) = FALSE
    /\ last.calls[3].provider = "duckduckgo"
    /\ IsUrl(last.result)

\* C5 as stated: when every provider called by search_image failed, the
\* result is one of the failure sentences and no exception leaves
\* search_image or display_message (the extracted code, if any, having run
\* without ending the script).
C5_FailureNeverRaises ==
    (/\ ChainRan /\ ~last.escaped
     /\ \A i \in 1..Len(last.calls) : ~IsUrl(last.calls[i].returned)) =>
        /\ last.result \in Sentinels
        /\ ~last.raised

\* C6 as stated: on a failure result display_message shows the warning and
\* does not call st.image; st.image is called only with a URL.
C6_FailureShowsWarning ==
    /\ (last.searched /\ ~last.escaped /\ last.result \in Sentinels)
          => last.warning /\ ~last.stImage
    /\ last.stImage => IsUrl(last.result)

\* C7 as stated: when the code of an assistant response raises in
\* execute_plotting_code, the exception stays inside it, Graph Error is
\* shown, and at the end of the run the response is the last log entry.
C7_TurnCompletesAfterGraphError ==
    (pc = "idle" /\ turn.shown /\ turn.execRaised) =>
        /\ ~turn.escaped
        /\ turn.graphError
        /\ messages # <<>>
        /\ messages[Len(messages)] = Msg("assistant", turn.response)

(***************************************************************************)
(* Claims about the conversation log                                       *)
(***************************************************************************)
\* every submission so far was answered and nothing cleared the log
AllTurnsPaired == hasMessages /\ ~cleared /\ nUser = nAsst

\* C8 as stated: after N answered submissions and no clear, the log has
\* exactly 2N entries.
C8_LogHasTwoNEntries ==
    (AllTurnsPaired /\ nAsst >= 1) => Len(messages) = 2 * nAsst

\* C8 amended: after N answered submissions and no clear, the log has 2N + 1
\* entries: the seeded greeting, then the N pairs, user entry before assistant
\* entry, in the order in which they were appended.
C8_LogIsGreetingPlusPairs ==
    AllTurnsPaired =>
        /\ Len(messages) = 2 * nAsst + 1
        /\ messages[1] = Msg("assistant", SeedGreeting(app))
        /\ \A k \in 1..nAsst :
             messages[2 * k].role = "user" /\ messages[2 * k + 1].role = "assistant"
        /\ SubSeq(messages, 2, Len(messages)) = appended

C8_Witness ==
    /\ AllTurnsPaired /\ pc = "idle"
    /\ nAsst = 2
    /\ Len(messages) = 5

\* the rerun that Clear Chat asked for has reached the chat section
AfterClearChat ==
    event = [kind |-> "rerun", text |-> "clear_chat"] /\ pc = "history"

\* C9 as stated: after Clear Chat and the rerun, the log is exactly one entry,
\* the greeting the session was seeded with.
C9_ClearChatReseedsGreeting ==
    AfterClearChat => messages = <<Msg("assistant", SeedGreeting(app))>>

IsPrefix(s, t) == Len(s) <= Len(t) /\ SubSeq(t, 1, Len(s)) = s

\* C10: the log is append-only.  Every step other than Clear Chat and Logout
\* leaves the entries of the log where they are and at most adds entries at
\* its end.
C10_AppendOnly == [][IsPrefix(messages, messages') \/ ClearChat \/ Logout]_vars

C10_Witness ==
    /\ Len(messages) = 5
    /\ ~cleared
    /\ SubSeq(messages, 2, 5) = appended

(***************************************************************************)
(* Claims about the LLM request                                            *)
(***************************************************************************)
\* C11: when the LLM request raises, the turn handler catches the exception:
\* an error message is shown, nothing is displayed as a response, the log
\* ends with the user entry of the turn (no assistant entry is appended), and
\* the script run ends with the whole page drawn.
C11_RequestErrorIsCaught ==
    (pc = "idle" /\ turn.llmRaised) =>
        /\ turn.errorShown
        /\ ~turn.shown
        /\ ui = UiFull
        /\ messages # <<>>
        /\ messages[Len(messages)].role = "user"
        /\ nAsst < nUser

C11_Witness ==
    /\ pc = "idle" /\ turn.llmRaised /\ turn.errorShown
    /\ app = "deepseek_app"
    /\ Len(messages) = 4
    /\ messages[3].role = "assistant"
    /\ messages[4] = Msg("user", "why?")

\* C12: nothing is retried automatically: a script run issues at most one LLM
\* request, and a request is issued only in a run started by a new input of
\* the user (a chat submission, or media newly put into a widget).
C12_OneRequestPerSubmission ==
    /\ turn.requests <= 1
    /\ (pc = "llm" => event.kind \in {"submit", "media"})

(***************************************************************************)
(* Claims about configuration                                              *)
(***************************************************************************)
\* C13: in app.py, when APP_PASSWORD is not set the rest of the page is not
\* rendered: the history loop is never entered, the chat input is never
\* drawn, and no LLM request is made.
C13_UnsetPasswordHaltsPage ==
    (app = "app" /\ ~cfg.password) =>
        /\ pc \notin {"history", "llm", "display"}
        /\ "chat_input" \notin ui
        /\ turn.requests = 0

(***************************************************************************)
(* Claims about the request payload (checked under SpecPayload)            *)
(***************************************************************************)
Built == req.pc = "built"
\* how many log entries the payload carries
Carried == IF Len(req.log) > WINDOW THEN WINDOW ELSE Len(req.log)

\* C14: the payload of deepseek_app.py is one system message (persona,
\* pedagogy, level instruction, topic), then the latest log entries, at most
\* 10, in log order with their roles, then the latest user input; no older
\* entry of the log is in it.
C14_PayloadIsSystemWindowInput ==
    Built =>
        /\ Len(req.payload) = Carried + 2
        /\ Carried <= 10
        /\ req.payload[1].role = "system"
        /\ Contains(req.payload[1].content, SEAB_H2_MASTER_INSTRUCTIONS)
        /\ Contains(req.payload[1].content, CORE_PEDAGOGY)
        /\ Contains(req.payload[1].content, USER_LEVEL_INSTRUCTIONS(req.level))
        /\ Contains(req.payload[1].content, "Current Topic: " \o req.topic)
        /\ \A i \in 2..Len(req.payload) : req.payload[i].role # "system"
        /\ \A j \in 1..Carried :
              req.payload[1 + j] = req.log[Len(req.log) - Carried + j]
        /\ req.payload[Len(req.payload)] = Msg("user", req.input)
        /\ \A i \in 1..(Len(req.log) - Carried) :
              \A j \in 1..Len(req.payload) :
                  req.payload[j].content # req.log[i].content

C14_Witness ==
    /\ Built
    /\ Len(req.log) = 12
    /\ Len(req.payload) = 12
    /\ req.payload[2] = Msg("user", LogText(3))
    /\ req.payload[3] = Msg("assistant", LogText(4))

(***************************************************************************)
(* Claims about the media helpers                                          *)
(***************************************************************************)
\* C15: search_image is memoized by its query: for each query the provider
\* chain has run exactly once however often the query was searched, the
\* memo holds what that run returned, every search returns that same value,
\* and a search answered from the memo calls no provider.
C15_SearchMemoizedByQuery ==
    /\ \A q \in DOMAIN chain :
          /\ chain[q].runs = 1
          /\ q \in DOMAIN cache
          /\ cache[q] = chain[q].first
    /\ last.searched =>
          /\ last.query \in DOMAIN chain
          /\ last.result = chain[last.query].first
          /\ (last.cacheHit => last.calls = <<>>)

C15_Witness ==
    /\ last.searched /\ last.cacheHit
    /\ pc = "history" /\ hi > 1
    /\ chain[last.query].runs = 1
    /\ last.result = chain[last.query].first

(***************************************************************************)
(* Claims about the narration (checked under SpecText)                     *)
(***************************************************************************)
\* C16: generate_audio never raises: it returns an in-memory buffer
\* positioned at offset 0, or None; it returns None whenever the
\* text-to-speech call fails.
C16_AudioNeverRaises ==
    (Shown /\ txt.audio.called) =>
        /\ ~txt.audio.raised
        /\ txt.audio.value \in {AudioNone, BytesIO(0)}
        /\ (txt.audio.tts = "raises" => txt.audio.value = AudioNone)
        /\ (txt.audio.value = BytesIO(0) => txt.audio.tts = "ok")

C16_Witness ==
    /\ Shown /\ txt.audio.called
    /\ txt.audio.tts = "raises"
    /\ txt.audio.value = AudioNone
    /\ txt.app = "deepseek_app"

(***************************************************************************)
(* Claims about the rendering of the log                                   *)
(***************************************************************************)
\* C17: the plot executor and the image search run once per turn: when the
\* history loop renders an entry of an earlier run again, it does not call
\* execute_plotting_code for it and does not run a search that is not
\* answered from the memo.
C17_ExecutedOncePerEntry ==
    (pc = "history" /\ hi > 1) =>
        /\ ~last.execCalled
        /\ (last.searched => last.cacheHit)

\* C18: only assistant messages reach exec and search_image: for a message
\* of role user, whatever its text, display_message passes no code to
\* execute_plotting_code and no query to search_image (and narrates nothing).
C18_UserTextNeverExecuted ==
    (Shown /\ txt.role = "user") =>
        /\ ~txt.out.hasCode /\ txt.out.code = ""
        /\ ~txt.out.searches /\ txt.out.query = ""
        /\ ~txt.audio.called

C18_Witness ==
    /\ Shown /\ txt.role = "user" /\ txt.app = "deepseek_app"
    /\ SearchCode(txt.content, 1).found
    /\ SearchTag(txt.content).found
    /\ ~txt.out.hasCode /\ ~txt.out.searches

\* a fence with a closing fence behind it
HasFencedBlock(s) ==
    /\ Find(s, FENCE, 1) # 0
    /\ Find(s, FENCE, Find(s, FENCE, 1) + Len(FENCE)) # 0

\* C19: the text handed to the text-to-speech call skips code and image
\* tags: whenever audio is generated for an assistant message, the narrated
\* text holds no fenced block and no image marker that display_message
\* recognizes (in any letter case).
C19_NarrationSkipsCodeAndTags ==
    (Shown /\ txt.audio.played) =>
        /\ ~HasFencedBlock(txt.audio.spoken)
        /\ ~SearchTag(txt.audio.spoken).found

\* C20: without an LLM key a submission is stopped before any request and
\* leaves the log as it was: in a session without a key no user entry is
\* ever appended and no request is ever issued.
C20_NoKeyLeavesLogUntouched ==
    ~cfg.llmKey =>
        /\ pc # "llm" /\ turn.requests = 0
        /\ nUser = 0
        /\ \A i \in 1..Len(messages) : messages[i].role # "user"

(***************************************************************************)
(* Claims about the gates of app.py                                        *)
(***************************************************************************)
\* C21: in app.py, during a run in which the topic is General / Any no user
\* entry is appended and no chat request is issued, and the page such a run
\* leaves offers no enabled chat input.
C21_GeneralTopicDisablesChat ==
    [][(app = "app" /\ topic' = GENERAL) =>
          /\ nUser' = nUser
          /\ pc' \notin {"llm", "display"}
          /\ turn'.requests = 0
          /\ (pc' = "idle" => "chat_input" \notin ui')]_vars

C21_Witness ==
    /\ app = "app" /\ topic = GENERAL /\ cfg.llmKey
    /\ pc = "idle" /\ "topic" \in ui /\ "chat_input" \notin ui
    /\ nUser >= 1
    /\ Len(messages) >= 3

\* C22: in app.py with APP_PASSWORD set, a run of a session that is not
\* authenticated stops inside check_login: such a step neither creates nor
\* changes the log, reaches neither the history loop nor the request nor
\* the display of a reply (no code is executed); and the session becomes
\* authenticated only by a login submission with the right password.
C22_LoginGate ==
    [][/\ (app = "app" /\ cfg.password /\ auth # "true") =>
            /\ messages' = messages /\ hasMessages' = hasMessages
            /\ pc' \in {"top", "idle"}
            /\ last' = last /\ turn'.requests = 0
            /\ (pc' = "idle" => ui' = {"login"})
       /\ (auth # "true" /\ auth' = "true") =>
            /\ app = "app" /\ cfg.password
            /\ event.kind = "login" /\ event.text = "right"]_vars

C22_Witness ==
    /\ app = "app" /\ cfg.password /\ auth = "false"
    /\ pc = "idle" /\ ui = {"login"}
    /\ cleared /\ ~hasMessages /\ messages = <<>>
    /\ nUser >= 1

\* how many entries of a payload are the message m
RECURSIVE CountOf(_, _)
CountOf(payload, m) ==
    IF payload = <<>> THEN 0
    ELSE (IF payload[1] = m THEN 1 ELSE 0) + CountOf(Tail(payload), m)

\* C26: in deepseek_app.py the latest user message is in the request payload
\* exactly once: the history window does not hold the message that is then
\* added as the current user input.
C26_LatestInputSentOnce ==
    Built => CountOf(req.payload, Msg("user", req.input)) = 1

\* C27: in app_comments.py only a new submission starts a turn: during a run
\* caused by anything else (the topic selector, Clear Chat and its rerun, a
\* rerun while a widget still holds earlier media) no entry is appended to
\* the log and no LLM request is issued.
C27_TurnOnlyOnNewSubmission ==
    [][(app = "app_comments" /\ pc # "idle" /\ event.kind \notin {"submit", "media"}) =>
          /\ nUser' = nUser /\ nAsst' = nAsst
          /\ pc' \notin {"llm", "display"}]_vars

\* C28: a response shown during a turn is in the log when the run ends,
\* also when rendering it failed: at the end of a run that displayed a
\* response (and that no SystemExit of the generated code cut short), the
\* last log entry is that response.
C28_ShownResponseIsRecorded ==
    (pc = "idle" /\ turn.shown /\ ~turn.escaped) =>
        /\ messages # <<>>
        /\ messages[Len(messages)] = Msg("assistant", turn.response)

(***************************************************************************)
(* Claims about messages with several python blocks                        *)
(***************************************************************************)
\* the text with the spans of the matches taken out, last match first
RECURSIVE WithoutSpans(_, _, _)
WithoutSpans(s, matches, k) ==
    IF k = 0 THEN s
    ELSE WithoutSpans(SubSeq(s, 1, matches[k].start - 1) \o Suffix(s, matches[k].end + 1),
                      matches, k - 1)

\* C25: for an assistant message of app.py with k >= 2 python blocks the
\* displayed text is the message with all k blocks taken out, and only the
\* first block, in order of appearance, is handed to execute_plotting_code
\* and shown in the expander (one call for the rendering).
C25_AllBlocksRemovedFirstExecuted ==
    (Shown /\ txt.app = "app" /\ txt.role = "assistant"
           /\ Len(FindAllCode(txt.content, 1)) >= 2) =>
        LET matches == FindAllCode(txt.content, 1)
        IN  /\ txt.out.afterCode = WithoutSpans(txt.content, matches, Len(matches))
            /\ \A k \in 1..Len(matches) : ~Contains(txt.out.afterCode, matches[k].group0)
            /\ txt.out.hasCode
            /\ txt.out.code = matches[1].group1

(***************************************************************************)
(* Claims about the quiz parser (checked under SpecParse)                  *)
(***************************************************************************)
Parsed == quizText.pc = "parsed"

NoBoundaries(text) == Find(text, "[", 1) = 0 \/ RFind(text, "]") = 0
BracketsReversed(text) == ~NoBoundaries(text) /\ RFind(text, "]") < Find(text, "[", 1)

\* what json.loads makes of the repaired text between the first "[" and the last "]"
Loaded(text) ==
    json_loads(fixed_json(SubSeq(text, Find(text, "[", 1), RFind(text, "]"))))

InvalidAfterRepair(text) == ~NoBoundaries(text) /\ ~Loaded(text).ok

\* the dict items of the loaded array, in order
DictItems(text) == SelectSeq(Loaded(text).val.items, LAMBDA q : q.t = "dict")

\* some dict item holds a question_number that int() does not accept
NumberNotAnInt(text) ==
    /\ ~NoBoundaries(text) /\ Loaded(text).ok
    /\ \E i \in 1..Len(DictItems(text)) :
          /\ HasKey(DictItems(text)[i].items, "question_number")
          /\ py_int(DictGet(DictItems(text)[i].items, "question_number", JNone)).exc # ""

QuizKeys == {"question_number", "question_type", "question", "options",
             "correct_answer", "explanation"}

\* a list of validated question dicts, one for every dict item of the array
ValidatedList(text, list) ==
    /\ Len(list) = Len(DictItems(text))
    /\ \A i \in 1..Len(list) :
          /\ DOMAIN list[i] = QuizKeys
          /\ list[i].question_number \in Int
          /\ list[i].question_type = str_lower(list[i].question_type)
          /\ \A k \in QuizKeys \ {"question_number", "options"} : list[i][k] \in STRING
          /\ DOMAIN list[i].options = 1..Len(list[i].options)
          /\ \A k \in 1..Len(list[i].options) :
                /\ list[i].options[k] \in STRING
                /\ list[i].options[k] = Trim(list[i].options[k])

\* C24: parse_quiz_response never raises to its caller: it returns None or
\* a list whose elements are dicts with exactly the six quiz keys
\* (question_number an int, question_type in lower case, options a list of
\* strings), non-dict items skipped; and it returns None exactly when the
\* text has no "[" or no "]", when the "]" precedes the "[", when the
\* repaired text is not valid JSON, or when a dict item's question_number is
\* a value int() rejects.
C24_NeverRaisesNoneOrValidatedList ==
    Parsed =>
        /\ quizText.result.raised = ""
        /\ quizText.result.none <=>
              \/ NoBoundaries(quizText.text)
              \/ BracketsReversed(quizText.text)
              \/ InvalidAfterRepair(quizText.text)
              \/ NumberNotAnInt(quizText.text)
        /\ ~quizText.result.none => ValidatedList(quizText.text, quizText.result.list)

\* C24 as stated: None only without "[" or "]", with a "]" before the "[",
\* or for text that is invalid JSON after the repair.
C24_NoneOnlyForBoundariesOrInvalidJson ==
    Parsed =>
        /\ quizText.result.raised = ""
        /\ quizText.result.none =>
              \/ NoBoundaries(quizText.text)
              \/ BracketsReversed(quizText.text)
              \/ InvalidAfterRepair(quizText.text)
        /\ ~quizText.result.none => ValidatedList(quizText.text, quizText.result.list)

C24_Witness ==
    /\ Parsed /\ ~quizText.result.none
    /\ Len(Loaded(quizText.text).val.items) = 2
    /\ Len(quizText.result.list) = 1
    /\ quizText.result.list[1].question_number = 2
    /\ quizText.result.list[1].question_type = "mcq"
    /\ quizText.result.list[1].options = <<>>

(***************************************************************************)
(* Claims about the quiz generator (checked under SpecQuiz)                *)
(***************************************************************************)
\* the response in hand parses to a non-empty question list
ParsesToQuestions ==
    /\ ~parse_quiz_response(quiz.response).none
    /\ Len(parse_quiz_response(quiz.response).list) > 0

\* C23: when Generate Quiz was pressed (key and specific topic) and the
\* response parses to a non-empty question list, the run leaves the session
\* in quiz mode: quiz_questions is the parsed list, quiz_active is True,
\* current_question is 0, and answered_i, user_answer_i and
\* selected_option_i are reset for every question i.
C23_GenerateEntersQuizMode ==
    [][(quiz.pc = "response" /\ ParsesToQuestions /\ quiz'.pc = "idle") =>
          /\ quiz'.state.has_questions
          /\ quiz'.state.quiz_questions = parse_quiz_response(quiz.response).list
          /\ quiz'.state.quiz_active = "True"
          /\ quiz'.state.has_current /\ quiz'.state.current_question = 0
          /\ \A i \in 1..Len(parse_quiz_response(quiz.response).list) :
                /\ quiz'.state.answered[i] = FALSE
                /\ quiz'.state.user_answer[i] = "None"
                /\ quiz'.state.selected_option[i] = "None"]_vars

=============================================================================
